---- MODULE Spec2Model ----
(***************************************************************************)
(* Model of the MemProcFS plugin manager (vmm/pluginmanager.c): the module *)
(* registry, the registration gateway, the dispatcher, the notification    *)
(* broadcaster, the three-phase loader and the lifecycle manager.          *)
(*                                                                         *)
(* Pointers are strings, "NULL" being the null pointer.  Module names are  *)
(* sequences of UTF-16 code units without the terminating zero, so Len is  *)
(* wcslen.  External code (built-in initializers, plugin libraries, the    *)
(* module capabilities, LocalAlloc, LoadLibrary) is modelled by its        *)
(* observable outcomes, drawn from the environment `env` or from small     *)
(* sets in the actions.                                                    *)
(***************************************************************************)
EXTENDS Integers, Sequences, FiniteSets, TLC

VARIABLES
    registry,       \* ctxVmm->pVmmVfsModuleList: the entries, head first (<<>> is the null handle)
    heap,           \* number of PLUGIN_LISTENTRY blocks LocalAlloc can still hand out
    leaked,         \* blocks allocated by Register that are neither linked nor freed
    libs,           \* library handle -> reference count held through LoadLibrary
    lock,           \* ctxVmm->MasterLock: "NULL" or the owning thread
    pc,             \* thread -> position in its current API call
    ri,             \* the registration template, local of PluginManager_Initialize
    iStep,          \* loader progress: index of the next built-in / directory candidate
    cfgPythonPath,  \* ctxMain->cfg.szPythonPath: "" or the location it names
    env,            \* the file system: plugins directory, interpreter files, bridge library
    events,         \* thread -> external effects of its current (or last) API call, in order
    call,           \* thread -> its current (or last) API call: operation, arguments, result
    pre,            \* thread -> the registry as it was when that call started
    nInit,          \* number of PluginManager_Initialize calls made so far
    nClose          \* number of PluginManager_Close calls made so far

vars == <<registry, heap, leaked, libs, lock, pc, ri, iStep, cfgPythonPath, env,
          events, call, pre, nInit, nClose>>

(***************************************************************************)
(* Bounds of the model.                                                    *)
(***************************************************************************)
MaxCand == 2        \* candidate files m_*.dll in the plugins directory
MaxInit == 2        \* PluginManager_Initialize calls per behaviour
MaxClose == 2       \* PluginManager_Close calls per behaviour
HeapBlocks == 16    \* blocks available when memory is plentiful
LowHeap == 2        \* blocks available when memory is short

(***************************************************************************)
(* Program constants.                                                      *)
(***************************************************************************)
NULL == "NULL"
NULLSTR == <<-1>>                           \* a null LPWSTR (no string starts with -1)
NameCapacity == 32                          \* WCHAR wszModuleName[32]
MaxNameLen == 31                            \* wcslen(...) > 31 is rejected
NumBuiltin == 10                            \* built-in initializer calls of phase 1
VMMDLL_PLUGIN_REGINFO_VERSION == 2          \* the supported maximum version
VMMDLL_PLUGIN_REGINFO_MAGIC == "REGINFO_MAGIC"
SIZEOF_REGINFO == "sizeof(VMMDLL_PLUGIN_REGINFO)"
VMMDLL_STATUS_SUCCESS == "STATUS_SUCCESS"
VMMDLL_STATUS_FILE_INVALID == "STATUS_FILE_INVALID"
VMMDLL_STATUS_END_OF_FILE == "STATUS_END_OF_FILE"
DWORD_MINUS_1 == -1                         \* (DWORD)-1: 0xFFFFFFFF, written as a signed 32-bit integer
szPYTHON_VERSIONS_SUPPORTED == <<"python36.dll", "python37.dll", "python38.dll">>

Threads == {"T1", "T2"}
Caps == {"list", "read", "write", "notify", "close"}

(***************************************************************************)
(* Strings: _wcsicmp, wcslen, wcsncpy_s.                                   *)
(***************************************************************************)
towlower(c) == IF c >= 65 /\ c <= 90 THEN c + 32 ELSE c

\* The code unit at position i of a zero-terminated string (0 past its end).
CharAt(s, i) == IF i <= Len(s) THEN s[i] ELSE 0

RECURSIVE wcsicmpFrom(_, _, _)
wcsicmpFrom(s1, s2, i) ==
    LET c1 == towlower(CharAt(s1, i))
        c2 == towlower(CharAt(s2, i))
    IN  IF c1 # c2 THEN c1 - c2
        ELSE IF c1 = 0 THEN 0
        ELSE wcsicmpFrom(s1, s2, i + 1)

\* _wcsicmp: 0 exactly when the strings are equal ignoring case.
wcsicmp(s1, s2) == wcsicmpFrom(s1, s2, 1)

wcslen(s) == Len(s)

\* wcsncpy_s with a destination of 31 code units.
wcsncpy_s_Capacity31(src) == IF Len(src) < MaxNameLen THEN src ELSE <<>>

\* wcsncpy_s(dst, 32, src, 32): the copy, or the empty string when the
\* source and its terminator do not fit the destination.
wcsncpy_s(src) == IF Len(src) < NameCapacity THEN src ELSE <<>>

(***************************************************************************)
(* The registry: PLUGIN_LISTENTRY, PluginManager_ModuleExists,             *)
(* PluginManager_Register.                                                 *)
(***************************************************************************)
\* The entry Register builds from a registration record (step 2 of Register).
NewEntry(pRegInfo) ==
    [ hDLL           |-> pRegInfo.hDLL,
      wszModuleName  |-> wcsncpy_s(pRegInfo.wszModuleName),
      fRootModule    |-> pRegInfo.fRootModule,
      fProcessModule |-> pRegInfo.fProcessModule,
      pfnList        |-> pRegInfo.pfnList,
      pfnRead        |-> pRegInfo.pfnRead,
      pfnWrite       |-> pRegInfo.pfnWrite,
      pfnNotify      |-> pRegInfo.pfnNotify,
      pfnClose       |-> pRegInfo.pfnClose ]

\* ModuleExists comparing names exactly instead of ignoring case.
ModuleExists_CaseSensitive(reg, hDLL, wszModule) ==
    \E i \in 1..Len(reg) :
        \/ hDLL # NULL /\ hDLL = reg[i].hDLL
        \/ wszModule # NULLSTR /\ wszModule = reg[i].wszModuleName

PluginManager_ModuleExists(reg, hDLL, wszModule) ==
    \E i \in 1..Len(reg) :
        \/ hDLL # NULL /\ hDLL = reg[i].hDLL
        \/ wszModule # NULLSTR /\ wcsicmp(wszModule, reg[i].wszModuleName) = 0

\* The outcome of a Register call: its return value, the registry, the heap
\* and the number of blocks lost.
RegOutcome(ret, reg, hp, lost) ==
    [ret |-> ret, registry |-> reg, heap |-> hp, lost |-> lost]

\* Register linking the entry before it tests the scope flags.
Register_LinkBeforeScopeTest(reg, hp, pRegInfo) ==
    IF pRegInfo.null THEN RegOutcome(FALSE, reg, hp, 0)
    ELSE IF pRegInfo.magic # VMMDLL_PLUGIN_REGINFO_MAGIC
            \/ pRegInfo.wVersion > VMMDLL_PLUGIN_REGINFO_VERSION
        THEN RegOutcome(FALSE, reg, hp, 0)
    ELSE IF pRegInfo.pfnList = NULL
            \/ CharAt(pRegInfo.wszModuleName, 1) = 0
            \/ wcslen(pRegInfo.wszModuleName) > MaxNameLen
        THEN RegOutcome(FALSE, reg, hp, 0)
    ELSE IF PluginManager_ModuleExists(reg, NULL, pRegInfo.wszModuleName)
        THEN RegOutcome(FALSE, reg, hp, 0)
    ELSE IF hp = 0
        THEN RegOutcome(FALSE, reg, hp, 0)
    ELSE IF ~pRegInfo.fRootModule /\ ~pRegInfo.fProcessModule
        THEN RegOutcome(FALSE, <<NewEntry(pRegInfo)>> \o reg, hp - 1, 0)
    ELSE RegOutcome(TRUE, <<NewEntry(pRegInfo)>> \o reg, hp - 1, 0)

\* Register without the search for an entry of the same name.
Register_NoDuplicateTest(reg, hp, pRegInfo) ==
    IF pRegInfo.null THEN RegOutcome(FALSE, reg, hp, 0)
    ELSE IF pRegInfo.magic # VMMDLL_PLUGIN_REGINFO_MAGIC
            \/ pRegInfo.wVersion > VMMDLL_PLUGIN_REGINFO_VERSION
        THEN RegOutcome(FALSE, reg, hp, 0)
    ELSE IF pRegInfo.pfnList = NULL
            \/ CharAt(pRegInfo.wszModuleName, 1) = 0
            \/ wcslen(pRegInfo.wszModuleName) > MaxNameLen
        THEN RegOutcome(FALSE, reg, hp, 0)
    ELSE IF hp = 0
        THEN RegOutcome(FALSE, reg, hp, 0)
    ELSE IF ~pRegInfo.fRootModule /\ ~pRegInfo.fProcessModule
        THEN RegOutcome(FALSE, reg, hp - 1, 1)
    ELSE RegOutcome(TRUE, <<NewEntry(pRegInfo)>> \o reg, hp - 1, 0)

\* Register without the test of the scope flags.
Register_NoScopeTest(reg, hp, pRegInfo) ==
    IF pRegInfo.null THEN RegOutcome(FALSE, reg, hp, 0)
    ELSE IF pRegInfo.magic # VMMDLL_PLUGIN_REGINFO_MAGIC
            \/ pRegInfo.wVersion > VMMDLL_PLUGIN_REGINFO_VERSION
        THEN RegOutcome(FALSE, reg, hp, 0)
    ELSE IF pRegInfo.pfnList = NULL
            \/ CharAt(pRegInfo.wszModuleName, 1) = 0
            \/ wcslen(pRegInfo.wszModuleName) > MaxNameLen
        THEN RegOutcome(FALSE, reg, hp, 0)
    ELSE IF PluginManager_ModuleExists(reg, NULL, pRegInfo.wszModuleName)
        THEN RegOutcome(FALSE, reg, hp, 0)
    ELSE IF hp = 0
        THEN RegOutcome(FALSE, reg, hp, 0)
    ELSE RegOutcome(TRUE, <<NewEntry(pRegInfo)>> \o reg, hp - 1, 0)

\* Register without the test of the list capability.
Register_NoListTest(reg, hp, pRegInfo) ==
    IF pRegInfo.null THEN RegOutcome(FALSE, reg, hp, 0)
    ELSE IF pRegInfo.magic # VMMDLL_PLUGIN_REGINFO_MAGIC
            \/ pRegInfo.wVersion > VMMDLL_PLUGIN_REGINFO_VERSION
        THEN RegOutcome(FALSE, reg, hp, 0)
    ELSE IF CharAt(pRegInfo.wszModuleName, 1) = 0
            \/ wcslen(pRegInfo.wszModuleName) > MaxNameLen
        THEN RegOutcome(FALSE, reg, hp, 0)
    ELSE IF PluginManager_ModuleExists(reg, NULL, pRegInfo.wszModuleName)
        THEN RegOutcome(FALSE, reg, hp, 0)
    ELSE IF hp = 0
        THEN RegOutcome(FALSE, reg, hp, 0)
    ELSE IF ~pRegInfo.fRootModule /\ ~pRegInfo.fProcessModule
        THEN RegOutcome(FALSE, reg, hp - 1, 1)
    ELSE RegOutcome(TRUE, <<NewEntry(pRegInfo)>> \o reg, hp - 1, 0)

\* Register accepting the supported version only.
Register_VersionExact(reg, hp, pRegInfo) ==
    IF pRegInfo.null THEN RegOutcome(FALSE, reg, hp, 0)
    ELSE IF pRegInfo.magic # VMMDLL_PLUGIN_REGINFO_MAGIC
            \/ pRegInfo.wVersion # VMMDLL_PLUGIN_REGINFO_VERSION
        THEN RegOutcome(FALSE, reg, hp, 0)
    ELSE IF pRegInfo.pfnList = NULL
            \/ CharAt(pRegInfo.wszModuleName, 1) = 0
            \/ wcslen(pRegInfo.wszModuleName) > MaxNameLen
        THEN RegOutcome(FALSE, reg, hp, 0)
    ELSE IF PluginManager_ModuleExists(reg, NULL, pRegInfo.wszModuleName)
        THEN RegOutcome(FALSE, reg, hp, 0)
    ELSE IF hp = 0
        THEN RegOutcome(FALSE, reg, hp, 0)
    ELSE IF ~pRegInfo.fRootModule /\ ~pRegInfo.fProcessModule
        THEN RegOutcome(FALSE, reg, hp - 1, 1)
    ELSE RegOutcome(TRUE, <<NewEntry(pRegInfo)>> \o reg, hp - 1, 0)

\* Register linking the new entry at the tail of the list.
Register_Appends(reg, hp, pRegInfo) ==
    IF pRegInfo.null THEN RegOutcome(FALSE, reg, hp, 0)
    ELSE IF pRegInfo.magic # VMMDLL_PLUGIN_REGINFO_MAGIC
            \/ pRegInfo.wVersion > VMMDLL_PLUGIN_REGINFO_VERSION
        THEN RegOutcome(FALSE, reg, hp, 0)
    ELSE IF pRegInfo.pfnList = NULL
            \/ CharAt(pRegInfo.wszModuleName, 1) = 0
            \/ wcslen(pRegInfo.wszModuleName) > MaxNameLen
        THEN RegOutcome(FALSE, reg, hp, 0)
    ELSE IF PluginManager_ModuleExists(reg, NULL, pRegInfo.wszModuleName)
        THEN RegOutcome(FALSE, reg, hp, 0)
    ELSE IF hp = 0
        THEN RegOutcome(FALSE, reg, hp, 0)
    ELSE IF ~pRegInfo.fRootModule /\ ~pRegInfo.fProcessModule
        THEN RegOutcome(FALSE, reg, hp - 1, 1)
    ELSE RegOutcome(TRUE, reg \o <<NewEntry(pRegInfo)>>, hp - 1, 0)

PluginManager_Register(reg, hp, pRegInfo) ==
    IF pRegInfo.null THEN RegOutcome(FALSE, reg, hp, 0)
    ELSE IF pRegInfo.magic # VMMDLL_PLUGIN_REGINFO_MAGIC
            \/ pRegInfo.wVersion > VMMDLL_PLUGIN_REGINFO_VERSION
        THEN RegOutcome(FALSE, reg, hp, 0)
    ELSE IF pRegInfo.pfnList = NULL
            \/ CharAt(pRegInfo.wszModuleName, 1) = 0
            \/ wcslen(pRegInfo.wszModuleName) > MaxNameLen
        THEN RegOutcome(FALSE, reg, hp, 0)
    ELSE IF PluginManager_ModuleExists(reg, NULL, pRegInfo.wszModuleName)
        THEN RegOutcome(FALSE, reg, hp, 0)
    ELSE IF hp = 0                                   \* LocalAlloc returned NULL
        THEN RegOutcome(FALSE, reg, hp, 0)
    ELSE IF ~pRegInfo.fRootModule /\ ~pRegInfo.fProcessModule
        THEN RegOutcome(FALSE, reg, hp - 1, 1)       \* returns without LocalFree
    ELSE RegOutcome(TRUE, <<NewEntry(pRegInfo)>> \o reg, hp - 1, 0)

(***************************************************************************)
(* The dispatcher: PluginManager_ContextInitialize, _ListAll, _List,       *)
(* _Read, _Write, _Notify.                                                 *)
(***************************************************************************)
\* A process object (PVMM_PROCESS) is "NULL" or names a process; this is its dwPID.
ProcessPID(pProcess) == 4

\* The call context carrying the process reference to every entry.
ContextInitialize_AlwaysProcess(pModule, pProcess, wszPath) ==
    [ dwPID     |-> IF pProcess # NULL THEN ProcessPID(pProcess) ELSE DWORD_MINUS_1,
      pProcess  |-> pProcess,
      wszModule |-> pModule.wszModuleName,
      wszPath   |-> wszPath ]

PluginManager_ContextInitialize(pModule, pProcess, wszPath) ==
    [ dwPID     |-> IF pProcess # NULL THEN ProcessPID(pProcess) ELSE DWORD_MINUS_1,
      pProcess  |-> IF pModule.hDLL # NULL THEN NULL ELSE pProcess,
      wszModule |-> pModule.wszModuleName,
      wszPath   |-> wszPath ]

\* The scope test with both call shapes accepting any entry.
ScopeMatches_Any(pProcess, pModule) ==
    pModule.fProcessModule \/ pModule.fRootModule

\* The scope test of ListAll, List, Read and Write.
ScopeMatches(pProcess, pModule) ==
    \/ pProcess # NULL /\ pModule.fProcessModule
    \/ pProcess = NULL /\ pModule.fRootModule

\* The lookup that stops at the first entry of matching scope and name,
\* whether or not it has the capability.
LookupModule_NoCapTest(reg, pProcess, wszModule, pfn) ==
    LET hits == { i \in 1..Len(reg) :
                    /\ ScopeMatches(pProcess, reg[i])
                    /\ wcsicmp(wszModule, reg[i].wszModuleName) = 0 }
    IN  IF hits = {} THEN 0 ELSE CHOOSE i \in hits : \A j \in hits : i <= j

\* The loop of List, Read and Write: the index of the first entry whose scope
\* matches the call shape, that has capability pfn, and whose name equals
\* wszModule ignoring case; 0 when the loop runs off the list.
LookupModule(reg, pProcess, wszModule, pfn) ==
    LET hits == { i \in 1..Len(reg) :
                    /\ ScopeMatches(pProcess, reg[i])
                    /\ reg[i][pfn] # NULL
                    /\ wcsicmp(wszModule, reg[i].wszModuleName) = 0 }
    IN  IF hits = {} THEN 0 ELSE CHOOSE i \in hits : \A j \in hits : i <= j

\* What a List, Read or Write call hands to the capability it found.
\* The invocation that hands the module the path pointer as the caller
\* gave it, null included.
Invocation_RawPath(pfn, pModule, pProcess, wszPath, args, returned) ==
    [ ev       |-> pfn,
      fn       |-> pModule[pfn],
      ctx      |-> PluginManager_ContextInitialize(pModule, pProcess, wszPath),
      args     |-> args,
      returned |-> returned ]

Invocation(pfn, pModule, pProcess, wszPath, args, returned) ==
    [ ev       |-> pfn,
      fn       |-> pModule[pfn],
      ctx      |-> PluginManager_ContextInitialize(pModule, pProcess,
                      IF wszPath # NULLSTR THEN wszPath ELSE <<>>),
      args     |-> args,
      returned |-> returned ]

\* PluginManager_List: the capability invocations made and the value returned,
\* `result` being what the module's list capability answers when invoked.
PluginManager_List(reg, pProcess, wszModule, wszPath, pFileList, result) ==
    LET i == LookupModule(reg, pProcess, wszModule, "pfnList")
    IN  IF i # 0
        THEN [ events |-> << Invocation("pfnList", reg[i], pProcess, wszPath,
                                        [pFileList |-> pFileList], result) >>,
               ret    |-> result ]
        ELSE [ events |-> <<>>, ret |-> FALSE ]

\* Read / Write clearing the caller's byte count when no module matches.
ReadWrite_ClearsCount(pfn, reg, pProcess, wszModule, wszPath, pb, cb, cbInit, cbOffset, out) ==
    LET i == LookupModule(reg, pProcess, wszModule, pfn)
    IN  IF i # 0
        THEN [ events |-> << Invocation(pfn, reg[i], pProcess, wszPath,
                                        [pb |-> pb, cb |-> cb, cbOffset |-> cbOffset],
                                        out) >>,
               ret    |-> out.nt,
               pcb    |-> out.cb ]
        ELSE [ events |-> <<>>, ret |-> VMMDLL_STATUS_FILE_INVALID, pcb |-> 0 ]

\* PluginManager_Read / _Write: `out` is what the module's capability answers
\* when invoked (its status and the byte count it stores through pcbRead);
\* cbInit is what the caller's byte-count variable held before the call.
ReadWrite(pfn, reg, pProcess, wszModule, wszPath, pb, cb, cbInit, cbOffset, out) ==
    LET i == LookupModule(reg, pProcess, wszModule, pfn)
    IN  IF i # 0
        THEN [ events |-> << Invocation(pfn, reg[i], pProcess, wszPath,
                                        [pb |-> pb, cb |-> cb, cbOffset |-> cbOffset],
                                        out) >>,
               ret    |-> out.nt,
               pcb    |-> out.cb ]
        ELSE [ events |-> <<>>, ret |-> VMMDLL_STATUS_FILE_INVALID, pcb |-> cbInit ]

PluginManager_Read(reg, pProcess, wszModule, wszPath, pb, cb, cbInit, cbOffset, out) ==
    ReadWrite("pfnRead", reg, pProcess, wszModule, wszPath, pb, cb, cbInit, cbOffset, out)

PluginManager_Write(reg, pProcess, wszModule, wszPath, pb, cb, cbInit, cbOffset, out) ==
    ReadWrite("pfnWrite", reg, pProcess, wszModule, wszPath, pb, cb, cbInit, cbOffset, out)

\* The subsequence of a sequence whose elements satisfy Test.
RECURSIVE SelectIdx(_, _, _)
SelectIdx(reg, keep, i) ==
    IF i > Len(reg) THEN <<>>
    ELSE (IF i \in keep THEN <<i>> ELSE <<>>) \o SelectIdx(reg, keep, i + 1)

\* Notify restricted to the entries of root scope.
NotifyTargets_RootOnly(reg) ==
    SelectIdx(reg, { i \in 1..Len(reg) : reg[i].pfnNotify # NULL /\ reg[i].fRootModule }, 1)

\* The entries PluginManager_Notify calls, in the order of the loop.
NotifyTargets(reg) ==
    SelectIdx(reg, { i \in 1..Len(reg) : reg[i].pfnNotify # NULL }, 1)

PluginManager_Notify(reg, fEvent, pvEvent, cbEvent) ==
    LET idx == NotifyTargets(reg)
    IN  [ events |-> [ k \in 1..Len(idx) |->
                        [ ev   |-> "pfnNotify",
                          fn   |-> reg[idx[k]].pfnNotify,
                          of   |-> reg[idx[k]].wszModuleName,
                          args |-> [fEvent |-> fEvent, pvEvent |-> pvEvent,
                                    cbEvent |-> cbEvent] ] ],
          ret    |-> TRUE ]

\* PluginManager_ListAll: the names added to the file list, in order.
PluginManager_ListAll(reg, pProcess, pFileList) ==
    LET idx == SelectIdx(reg, { i \in 1..Len(reg) : ScopeMatches(pProcess, reg[i]) }, 1)
    IN  [ events |-> [ k \in 1..Len(idx) |->
                        [ ev        |-> "VMMDLL_VfsList_AddDirectoryEx",
                          pFileList |-> pFileList,
                          wszName   |-> reg[idx[k]].wszModuleName ] ] ]

(***************************************************************************)
(* Registration records (VMMDLL_PLUGIN_REGINFO) and what fills them.       *)
(***************************************************************************)
\* PluginManager_Initialize_RegInfoInit: the template handed to an initializer.
PluginManager_Initialize_RegInfoInit(hDLL) ==
    [ null           |-> FALSE,
      magic          |-> VMMDLL_PLUGIN_REGINFO_MAGIC,
      wVersion       |-> VMMDLL_PLUGIN_REGINFO_VERSION,
      wSize          |-> SIZEOF_REGINFO,
      hDLL           |-> hDLL,
      tpMemoryModel  |-> "ctxVmm->tpMemoryModel",
      tpSystem       |-> "ctxVmm->tpSystem",
      hReservedDllPython3X |-> NULL,
      hReservedDllPython3  |-> NULL,
      pfnPluginManager_Register |-> "PluginManager_Register",
      wszModuleName  |-> <<>>,
      fRootModule    |-> FALSE,
      fProcessModule |-> FALSE,
      pfnList        |-> NULL,
      pfnRead        |-> NULL,
      pfnWrite       |-> NULL,
      pfnNotify      |-> NULL,
      pfnClose       |-> NULL ]

\* A null PVMMDLL_PLUGIN_REGINFO.
NullRegInfo == [PluginManager_Initialize_RegInfoInit(NULL) EXCEPT !.null = TRUE]

\* The address of capability `cap` in the code unit `code`.
Fn(code, cap, caps) == IF cap \in caps THEN code \o "!" \o cap ELSE NULL

\* A module filling the template it was handed: its name, scope and capabilities.
Fill(tpl, name, fRoot, fProc, caps, code) ==
    [ tpl EXCEPT !.wszModuleName  = name,
                 !.fRootModule    = fRoot,
                 !.fProcessModule = fProc,
                 !.pfnList        = Fn(code, "list", caps),
                 !.pfnRead        = Fn(code, "read", caps),
                 !.pfnWrite       = Fn(code, "write", caps),
                 !.pfnNotify      = Fn(code, "notify", caps),
                 !.pfnClose       = Fn(code, "close", caps) ]

\* Module names used by the model.
Name_a   == <<97>>                          \* "a"
Name_A   == <<65>>                          \* "A"
Name_b   == <<98>>                          \* "b"
Name_B   == <<66>>                          \* "B"
Name_p   == <<112>>                         \* "p"
Name_q   == <<113>>                         \* "q"
Name_py  == <<112, 121>>                    \* "py"
Name_zz  == <<122, 122>>                    \* "zz": never registered
Name_31  == [i \in 1..MaxNameLen |-> 120]   \* "xxx...x", 31 code units
Name_32  == [i \in 1..NameCapacity |-> 120] \* 32 code units, no room for the zero

\* Valid records that differ in every field.
ValidRecords ==
    LET builtin == PluginManager_Initialize_RegInfoInit(NULL)
        lib1    == PluginManager_Initialize_RegInfoInit("lib1")
        lib2    == PluginManager_Initialize_RegInfoInit("lib2")
    IN  { Fill(builtin, Name_a, TRUE, FALSE, {"list", "notify"}, "a"),
          Fill(lib1, Name_A, FALSE, TRUE, Caps, "A"),
          Fill(lib1, Name_b, FALSE, TRUE, {"list", "notify", "close"}, "b"),
          Fill(lib2, Name_B, TRUE, TRUE, {"list", "read"}, "B"),
          Fill(lib2, Name_31, TRUE, TRUE, {"list", "read", "write", "close"}, "x") }

\* Records that differ from the template in version or declared size.
OddRecords ==
    LET lib1    == PluginManager_Initialize_RegInfoInit("lib1")
        lib2    == PluginManager_Initialize_RegInfoInit("lib2")
    IN  { [Fill(lib2, Name_b, TRUE, FALSE, {"list", "write"}, "v1")
              EXCEPT !.wVersion = VMMDLL_PLUGIN_REGINFO_VERSION - 1],
          [Fill(lib1, Name_B, TRUE, FALSE, {"list", "notify"}, "sz")
              EXCEPT !.wSize = "sizeof(VMMDLL_PLUGIN_REGINFO) + 8"] }

\* One record per way of being invalid.
InvalidRecords ==
    LET lib1    == PluginManager_Initialize_RegInfoInit("lib1")
    IN  { NullRegInfo,
          [Fill(lib1, Name_q, TRUE, TRUE, Caps, "q") EXCEPT !.magic = "0"],
          [Fill(lib1, Name_q, TRUE, TRUE, Caps, "q")
              EXCEPT !.wVersion = VMMDLL_PLUGIN_REGINFO_VERSION + 1],
          Fill(lib1, Name_q, TRUE, TRUE, Caps \ {"list"}, "q"),
          Fill(lib1, <<>>, TRUE, TRUE, Caps, "q"),
          Fill(lib1, Name_32, TRUE, TRUE, Caps, "q"),
          Fill(lib1, Name_q, FALSE, FALSE, Caps, "q") }

\* The records offered to the gateway by direct Register calls.
RecordPool == ValidRecords \cup OddRecords \cup InvalidRecords

(***************************************************************************)
(* The callers: arguments of the dispatch calls and answers of the modules.*)
(***************************************************************************)
Processes == {NULL, "process"}
QueryNames == {Name_A, Name_b, Name_zz}
Paths == {NULLSTR, <<47, 102>>}             \* a null path, "/f"
ListAnswers == BOOLEAN
ReadWriteAnswers == { [nt |-> VMMDLL_STATUS_SUCCESS, cb |-> 16],
                      [nt |-> VMMDLL_STATUS_END_OF_FILE, cb |-> 0] }
ByteCountBefore == 77                       \* content of the caller's byte-count variable
Buffer == [pb |-> "pb", cb |-> 16, cbOffset |-> 4096]
NotifyArgs == { [fEvent |-> 1, pvEvent |-> NULL, cbEvent |-> 0],
                [fEvent |-> 2, pvEvent |-> "pvEvent", cbEvent |-> 8] }

(***************************************************************************)
(* API calls that run in one step.                                         *)
(***************************************************************************)
\* What a call that leaves loader and teardown state alone leaves unchanged.
NoLoaderStep == UNCHANGED <<libs, lock, pc, ri, iStep, cfgPythonPath, env, nInit, nClose>>

\* A call completed by thread t in one step.
Completed(t, c, evs) ==
    /\ events' = [events EXCEPT ![t] = evs]
    /\ call' = [call EXCEPT ![t] = c]
    /\ pre' = [pre EXCEPT ![t] = registry]

\* A library (or built-in) calls PluginManager_Register directly.
RegisterCall(t, pool) ==
    /\ pc[t] = "idle"
    /\ \E pRegInfo \in pool :
        LET r == PluginManager_Register(registry, heap, pRegInfo)
        IN  /\ registry' = r.registry
            /\ heap' = r.heap
            /\ leaked' = leaked + r.lost
            /\ Completed(t, [op |-> "Register", pRegInfo |-> pRegInfo, ret |-> r.ret], <<>>)
    /\ NoLoaderStep

ListCall(t, names, paths) ==
    /\ pc[t] = "idle"
    /\ \E pProcess \in Processes, wszModule \in names, wszPath \in paths,
          result \in ListAnswers :
        LET r == PluginManager_List(registry, pProcess, wszModule, wszPath, "pFileList", result)
        IN  Completed(t, [op |-> "List", pProcess |-> pProcess, wszModule |-> wszModule,
                          wszPath |-> wszPath, pFileList |-> "pFileList", ret |-> r.ret],
                      r.events)
    /\ UNCHANGED <<registry, heap, leaked>>
    /\ NoLoaderStep

ReadCall(t, names, paths) ==
    /\ pc[t] = "idle"
    /\ \E pProcess \in Processes, wszModule \in names, wszPath \in paths,
          out \in ReadWriteAnswers :
        LET r == PluginManager_Read(registry, pProcess, wszModule, wszPath,
                                    Buffer.pb, Buffer.cb, ByteCountBefore, Buffer.cbOffset, out)
        IN  Completed(t, [op |-> "Read", pProcess |-> pProcess, wszModule |-> wszModule,
                          wszPath |-> wszPath, args |-> Buffer, ret |-> r.ret, pcb |-> r.pcb],
                      r.events)
    /\ UNCHANGED <<registry, heap, leaked>>
    /\ NoLoaderStep

WriteCall(t, names, paths) ==
    /\ pc[t] = "idle"
    /\ \E pProcess \in Processes, wszModule \in names, wszPath \in paths,
          out \in ReadWriteAnswers :
        LET r == PluginManager_Write(registry, pProcess, wszModule, wszPath,
                                     Buffer.pb, Buffer.cb, ByteCountBefore, Buffer.cbOffset, out)
        IN  Completed(t, [op |-> "Write", pProcess |-> pProcess, wszModule |-> wszModule,
                          wszPath |-> wszPath, args |-> Buffer, ret |-> r.ret, pcb |-> r.pcb],
                      r.events)
    /\ UNCHANGED <<registry, heap, leaked>>
    /\ NoLoaderStep

NotifyCall(t) ==
    /\ pc[t] = "idle"
    /\ \E a \in NotifyArgs :
        LET r == PluginManager_Notify(registry, a.fEvent, a.pvEvent, a.cbEvent)
        IN  Completed(t, [op |-> "Notify", args |-> a, ret |-> r.ret], r.events)
    /\ UNCHANGED <<registry, heap, leaked>>
    /\ NoLoaderStep

ListAllCall(t) ==
    /\ pc[t] = "idle"
    /\ \E pProcess \in Processes :
        LET r == PluginManager_ListAll(registry, pProcess, "pFileList")
        IN  Completed(t, [op |-> "ListAll", pProcess |-> pProcess,
                          pFileList |-> "pFileList", ret |-> "void"], r.events)
    /\ UNCHANGED <<registry, heap, leaked>>
    /\ NoLoaderStep

(***************************************************************************)
(* Libraries: LoadLibrary / FreeLibrary reference counts, and the code of  *)
(* the libraries and built-in initializers, which lives outside this file. *)
(***************************************************************************)
Locations == {"user", "exe", "dflt"}        \* configured path, <exe dir>\python\, search path

\* The handle of candidate file number i of the plugins directory.
CandHandle(i) == "m_" \o ToString(i) \o ".dll"
\* The handle of the interpreter runtime of version index v found at location loc.
PyHandle(loc, v) == loc \o ":" \o szPYTHON_VERSIONS_SUPPORTED[v]
hPython3 == "python3.dll"
hPyPlugin == "vmmpycplugin.dll"

Handles ==
    { CandHandle(i) : i \in 1..(MaxCand + 1) }
        \cup { PyHandle(loc, v) : loc \in Locations, v \in 1..Len(szPYTHON_VERSIONS_SUPPORTED) }
        \cup { hPython3, hPyPlugin }

LoadLibrary(lbs, h) == [lbs EXCEPT ![h] = @ + 1]
FreeLibrary(lbs, h) == [lbs EXCEPT ![h] = IF @ > 0 THEN @ - 1 ELSE 0]

\* One registration a library attempts from its entry point: the module it
\* describes and the origin handle it leaves in the record ("own": the
\* handle the template carried, "null": NULL).
Reg(name, fRoot, fProc, caps, origin) ==
    [name |-> name, fRoot |-> fRoot, fProc |-> fProc, caps |-> caps, origin |-> origin]

\* What a file of the plugins directory can be.
Lib(loads, export, regs) == [loads |-> loads, export |-> export, regs |-> regs]
Lib_NoLoad   == Lib(FALSE, FALSE, <<>>)                 \* LoadLibraryExA fails
Lib_NoExport == Lib(TRUE, FALSE, <<>>)                  \* no InitializeVmmPlugin
Lib_Silent   == Lib(TRUE, TRUE, <<>>)                   \* registers nothing
Lib_P        == Lib(TRUE, TRUE, << Reg(Name_p, FALSE, TRUE, {"list", "read", "notify", "close"}, "own") >>)
Lib_QB       == Lib(TRUE, TRUE, << Reg(Name_q, TRUE, FALSE, {"list", "close"}, "own"),
                                   Reg(Name_B, TRUE, TRUE, Caps, "own"),
                                   Reg(Name_31, TRUE, TRUE, {"list", "write", "close"}, "own") >>)
Lib_Origin0  == Lib(TRUE, TRUE, << Reg(Name_p, TRUE, TRUE, {"list", "read", "close"}, "null") >>)
Lib_NoScope  == Lib(TRUE, TRUE, << Reg(Name_q, FALSE, FALSE, Caps, "own") >>)
Lib_Py       == Lib(TRUE, TRUE, << Reg(Name_A, TRUE, TRUE, Caps, "own"),
                                   Reg(Name_py, TRUE, TRUE, Caps, "own") >>)

DirLibs == { Lib_NoLoad, Lib_NoExport, Lib_Silent, Lib_P, Lib_QB, Lib_Origin0, Lib_NoScope }

\* Built-in module number i: its name, scope and capabilities.
BuiltinName(i) == << 96 + i >>                          \* "a", "b", ... "j"
BuiltinModule(i) ==
    Reg(BuiltinName(i), i % 2 = 1, (i % 2 = 0) \/ (i % 3 = 0),
        {"list", "read"} \cup (IF i % 3 = 0 THEN {"write"} ELSE {})
                         \cup (IF i % 4 = 1 THEN {"notify"} ELSE {})
                         \cup (IF i % 5 = 0 THEN {"close"} ELSE {}),
        "own")

\* The state the loader works on: the registry, the heap, the blocks lost,
\* the template, the effects so far and the library reference counts.
LoaderState(reg, hp, lost, tpl, evs, lbs) ==
    [registry |-> reg, heap |-> hp, lost |-> lost, ri |-> tpl, events |-> evs, libs |-> lbs]

Log(st, e) == [st EXCEPT !.events = Append(@, e)]

\* One registration attempt by `code`: it fills the record ri and calls
\* ri.pfnPluginManager_Register(&ri).
Attempt(st, code, a) ==
    LET filled == Fill(st.ri, a.name, a.fRoot, a.fProc, a.caps, code)
        rec    == IF a.origin = "null" THEN [filled EXCEPT !.hDLL = NULL] ELSE filled
        r      == PluginManager_Register(st.registry, st.heap, rec)
    IN  Log([st EXCEPT !.registry = r.registry, !.heap = r.heap,
                       !.lost = @ + r.lost, !.ri = rec],
            [ev |-> "Register", by |-> code, wszModuleName |-> rec.wszModuleName,
             hDLL |-> rec.hDLL, ret |-> r.ret])

\* An initializer or entry point of `code` making the attempts regs[k..].
RECURSIVE RunEntry(_, _, _, _)
RunEntry(st, code, regs, k) ==
    IF k > Len(regs) THEN st
    ELSE RunEntry(Attempt(st, code, regs[k]), code, regs, k + 1)

\* The call that hands over the record as the previous initializer left it,
\* with only the origin handle set anew.
CallEntry_StaleTemplate(st, code, tpl, regs) ==
    RunEntry(Log([st EXCEPT !.ri = [st.ri EXCEPT !.hDLL = tpl.hDLL]],
                 [ev |-> "Initialize", code |-> code, ri |-> [st.ri EXCEPT !.hDLL = tpl.hDLL]]),
             code, regs, 1)

\* The call of an initializer or entry point with template tpl.
CallEntry(st, code, tpl, regs) ==
    RunEntry(Log([st EXCEPT !.ri = tpl], [ev |-> "Initialize", code |-> code, ri |-> tpl]),
             code, regs, 1)

\* M_xxx_Initialize number i (m_modules.h): one Register call.
BuiltinCode(i) == "M_" \o ToString(i)
BuiltinInitialize(st, i, tpl) ==
    CallEntry(st, BuiltinCode(i), tpl, << BuiltinModule(i) >>)

Ev_Load(file, h) == [ev |-> "LoadLibrary", file |-> file, ret |-> h]
Ev_Free(h) == [ev |-> "FreeLibrary", h |-> h]

Load(st, file, h) ==
    IF h = NULL THEN Log(st, Ev_Load(file, NULL))
    ELSE Log([st EXCEPT !.libs = LoadLibrary(@, h)], Ev_Load(file, h))

Free(st, h) == Log([st EXCEPT !.libs = FreeLibrary(@, h)], Ev_Free(h))

\* if(h) { FreeLibrary(h); }
FreeIf(st, h) == IF h # NULL THEN Free(st, h) ELSE st

(***************************************************************************)
(* The loader: PluginManager_Initialize and PluginManager_Initialize_Python*)
(***************************************************************************)
\* The scan that keeps a library whose entry point registered nothing.
ScanCandidate_KeepSilent(st, i, lib) ==
    LET hDLL == CandHandle(i)
    IN  IF ~lib.loads THEN Load(st, hDLL, NULL)
        ELSE IF ~lib.export THEN Free(Load(st, hDLL, hDLL), hDLL)
        ELSE CallEntry(Load(st, hDLL, hDLL), hDLL,
                       PluginManager_Initialize_RegInfoInit(hDLL), lib.regs)

\* The scan that gives up at the first file without entry point.
ScanCandidate_NoExportKept(st, i, lib) ==
    LET hDLL == CandHandle(i)
    IN  IF ~lib.loads THEN Load(st, hDLL, NULL)
        ELSE IF ~lib.export THEN Load(st, hDLL, hDLL)
        ELSE LET done == CallEntry(Load(st, hDLL, hDLL), hDLL,
                                   PluginManager_Initialize_RegInfoInit(hDLL), lib.regs)
             IN  IF ~PluginManager_ModuleExists(done.registry, hDLL, NULLSTR)
                 THEN Free(done, hDLL)
                 ELSE done

\* One iteration of the directory scan of phase 2, for candidate file i.
ScanCandidate(st, i, lib) ==
    LET hDLL == CandHandle(i)
    IN  IF ~lib.loads THEN Load(st, hDLL, NULL)
        ELSE IF ~lib.export THEN Free(Load(st, hDLL, hDLL), hDLL)
        ELSE LET done == CallEntry(Load(st, hDLL, hDLL), hDLL,
                                   PluginManager_Initialize_RegInfoInit(hDLL), lib.regs)
             IN  IF ~PluginManager_ModuleExists(done.registry, hDLL, NULLSTR)
                 THEN Free(done, hDLL)
                 ELSE done

\* The loop over szPYTHON_VERSIONS_SUPPORTED at one location, from version
\* index v on: the handle found ("NULL" when none) after the attempts made.
RECURSIVE TryVersions(_, _, _, _)
TryVersions(st, files, loc, v) ==
    IF v > Len(szPYTHON_VERSIONS_SUPPORTED) THEN [st |-> st, h |-> NULL]
    ELSE IF <<loc, v>> \in files
        THEN [st |-> Load(st, PyHandle(loc, v), PyHandle(loc, v)), h |-> PyHandle(loc, v)]
    ELSE TryVersions(Load(st, PyHandle(loc, v), NULL), files, loc, v + 1)

\* Steps 5 and 6 of Initialize_Python, the runtime hDllPython3X being loaded.
PythonBridge(st, e, hDllPython3X) ==
    LET hDllPython3  == IF e.py3 THEN hPython3 ELSE NULL
        s5           == Load(st, hPython3, hDllPython3)
        hDllPyPlugin == IF e.bridge.loads THEN hPyPlugin ELSE NULL
        s6           == Load(s5, hPyPlugin, hDllPyPlugin)
        tpl          == [PluginManager_Initialize_RegInfoInit(hDllPyPlugin)
                            EXCEPT !.hReservedDllPython3X = hDllPython3X,
                                   !.hReservedDllPython3 = hDllPython3]
        called       == CallEntry(s6, hDllPyPlugin, tpl, e.bridge.regs)
    IN  IF hDllPyPlugin = NULL
            THEN FreeIf(FreeIf(s6, hDllPython3X), hDllPython3)              \* fail:
        ELSE IF ~e.bridge.export
            THEN FreeIf(FreeIf(Free(s6, hDllPyPlugin), hDllPython3X), hDllPython3)
        ELSE IF ~PluginManager_ModuleExists(called.registry, hDllPyPlugin, NULLSTR)
            THEN called                                                     \* return
        ELSE FreeIf(called, hDllPython3X)

\* The search that goes on to the other locations when the configured path
\* holds no runtime.
Initialize_Python_FallsThrough(st, cfgPath, e) ==
    LET user == IF cfgPath # "" THEN TryVersions(st, e.pyFiles, cfgPath, 1)
                ELSE [st |-> st, h |-> NULL]
        exe  == TryVersions(user.st, e.pyFiles, "exe", 1)
        dflt == TryVersions(exe.st, e.pyFiles, "dflt", 1)
    IN  IF user.h # NULL
             THEN [st |-> PythonBridge(user.st, e, user.h), cfgPythonPath |-> cfgPath]
        ELSE IF exe.h # NULL
             THEN [st |-> PythonBridge(exe.st, e, exe.h), cfgPythonPath |-> "exe"]
        ELSE IF dflt.h # NULL
             THEN [st |-> PythonBridge(dflt.st, e, dflt.h), cfgPythonPath |-> "dflt"]
        ELSE [st |-> dflt.st, cfgPythonPath |-> ""]

\* PluginManager_Initialize_Python: the loader state and cfg.szPythonPath after it.
PluginManager_Initialize_Python(st, cfgPath, e) ==
    LET user == TryVersions(st, e.pyFiles, cfgPath, 1)      \* 1: user-defined path
        exe  == TryVersions(st, e.pyFiles, "exe", 1)        \* 2: python\ next to the executable
        dflt == TryVersions(exe.st, e.pyFiles, "dflt", 1)   \* 3: the current path
    IN  IF cfgPath # ""
        THEN IF user.h = NULL
             THEN [st |-> user.st, cfgPythonPath |-> ""]
             ELSE [st |-> PythonBridge(user.st, e, user.h), cfgPythonPath |-> cfgPath]
        ELSE IF exe.h # NULL
             THEN [st |-> PythonBridge(exe.st, e, exe.h), cfgPythonPath |-> "exe"]
        ELSE IF dflt.h # NULL
             THEN [st |-> PythonBridge(dflt.st, e, dflt.h), cfgPythonPath |-> "dflt"]
        ELSE [st |-> dflt.st, cfgPythonPath |-> ""]         \* 4: goto fail, nothing to free

\* The loader state of thread t.
Cur(t) == LoaderState(registry, heap, 0, ri, events[t], libs)

\* Thread t's step took the loader state to st.
Becomes(t, st) ==
    /\ registry' = st.registry
    /\ heap' = st.heap
    /\ leaked' = leaked + st.lost
    /\ ri' = st.ri
    /\ libs' = st.libs
    /\ events' = [events EXCEPT ![t] = st.events]

\* if(ctxVmm->pVmmVfsModuleList) { return FALSE; }
InitializeTest(reg) == reg # <<>>

\* PluginManager_Initialize is called: the 'already initialized' test.  The
\* test reads the handle without holding the lock: while another thread
\* holds it the read races with that thread's writes and may yield the old
\* null handle.
InitializeCall(t) ==
    /\ pc[t] = "idle"
    /\ nInit < MaxInit
    /\ nInit' = nInit + 1
    /\ pre' = [pre EXCEPT ![t] = registry]
    /\ events' = [events EXCEPT ![t] = <<>>]
    /\ \E seen \in {InitializeTest(registry)}
                    \cup (IF lock \notin {NULL, t} THEN {FALSE} ELSE {}) :
        IF seen
        THEN /\ call' = [call EXCEPT ![t] = [op |-> "Initialize", ret |-> FALSE]]
             /\ pc' = pc
        ELSE /\ call' = [call EXCEPT ![t] = [op |-> "Initialize", ret |-> "pending"]]
             /\ pc' = [pc EXCEPT ![t] = "init_enter"]
    /\ UNCHANGED <<registry, heap, leaked, libs, lock, ri, iStep, cfgPythonPath, env, nClose>>

\* ZeroMemory(&ri) and EnterCriticalSection(&ctxVmm->MasterLock).
InitializeEnter(t) ==
    /\ pc[t] = "init_enter"
    /\ lock = NULL
    /\ lock' = t
    /\ ri' = [PluginManager_Initialize_RegInfoInit(NULL) EXCEPT
                 !.magic = "0", !.wVersion = 0, !.wSize = "0", !.tpMemoryModel = "0",
                 !.tpSystem = "0", !.pfnPluginManager_Register = NULL]
    /\ iStep' = 1
    /\ pc' = [pc EXCEPT ![t] = "init_builtin"]
    /\ UNCHANGED <<registry, heap, leaked, libs, cfgPythonPath, env, events, call, pre,
                   nInit, nClose>>

\* Phase 1 handing over to the next phase after the first built-in
\* initializer.
InitializeBuiltin_ScanEarly(t) ==
    /\ pc[t] = "init_builtin"
    /\ Becomes(t, BuiltinInitialize(Cur(t), iStep, PluginManager_Initialize_RegInfoInit(NULL)))
    /\ iStep' = 1
    /\ pc' = [pc EXCEPT ![t] = IF Len(env.dir) > 0 THEN "init_scan" ELSE "init_python"]
    /\ UNCHANGED <<lock, cfgPythonPath, env, call, pre, nInit, nClose>>

\* 1: one built-in module: RegInfoInit(&ri, NULL); M_xxx_Initialize(&ri).
InitializeBuiltin(t) ==
    /\ pc[t] = "init_builtin"
    /\ Becomes(t, BuiltinInitialize(Cur(t), iStep, PluginManager_Initialize_RegInfoInit(NULL)))
    /\ IF iStep < NumBuiltin
       THEN /\ iStep' = iStep + 1
            /\ pc' = pc
       ELSE /\ iStep' = 1
            /\ pc' = [pc EXCEPT ![t] = IF Len(env.dir) > 0 THEN "init_scan" ELSE "init_python"]
    /\ UNCHANGED <<lock, cfgPythonPath, env, call, pre, nInit, nClose>>

\* 2: one file found by FindFirstFileA / FindNextFileA.
InitializeScan(t) ==
    /\ pc[t] = "init_scan"
    /\ Becomes(t, ScanCandidate(Cur(t), iStep, env.dir[iStep]))
    /\ IF iStep < Len(env.dir)
       THEN /\ iStep' = iStep + 1
            /\ pc' = pc
       ELSE /\ iStep' = 0
            /\ pc' = [pc EXCEPT ![t] = "init_python"]
    /\ UNCHANGED <<lock, cfgPythonPath, env, call, pre, nInit, nClose>>

\* 3: PluginManager_Initialize_Python().
InitializePython(t) ==
    /\ pc[t] = "init_python"
    /\ LET r == PluginManager_Initialize_Python(Cur(t), cfgPythonPath, env)
       IN  /\ Becomes(t, r.st)
           /\ cfgPythonPath' = r.cfgPythonPath
    /\ iStep' = 0
    /\ pc' = [pc EXCEPT ![t] = "init_leave"]
    /\ UNCHANGED <<lock, env, call, pre, nInit, nClose>>

\* The return of bring-up reporting whether the scripting bridge is loaded.
InitializeLeave_NeedsBridge(t) ==
    /\ pc[t] = "init_leave"
    /\ lock' = NULL
    /\ call' = [call EXCEPT ![t] = [op |-> "Initialize", ret |-> libs[hPyPlugin] > 0]]
    /\ pc' = [pc EXCEPT ![t] = "idle"]
    /\ UNCHANGED <<registry, heap, leaked, libs, ri, iStep, cfgPythonPath, env, events, pre,
                   nInit, nClose>>

\* The return of bring-up that leaves the critical section only when the
\* scripting bridge is loaded.
InitializeLeave_KeepsLockOnFailure(t) ==
    /\ pc[t] = "init_leave"
    /\ lock' = IF libs[hPyPlugin] > 0 THEN NULL ELSE lock
    /\ call' = [call EXCEPT ![t] = [op |-> "Initialize", ret |-> TRUE]]
    /\ pc' = [pc EXCEPT ![t] = "idle"]
    /\ UNCHANGED <<registry, heap, leaked, libs, ri, iStep, cfgPythonPath, env, events, pre,
                   nInit, nClose>>

\* LeaveCriticalSection(&ctxVmm->MasterLock); return TRUE;
InitializeLeave(t) ==
    /\ pc[t] = "init_leave"
    /\ lock' = NULL
    /\ call' = [call EXCEPT ![t] = [op |-> "Initialize", ret |-> TRUE]]
    /\ pc' = [pc EXCEPT ![t] = "idle"]
    /\ UNCHANGED <<registry, heap, leaked, libs, ri, iStep, cfgPythonPath, env, events, pre,
                   nInit, nClose>>

(***************************************************************************)
(* The lifecycle manager: PluginManager_Close.                             *)
(***************************************************************************)
\* The release test without the search for another entry of the library.
CloseFrees_Always(rest, pm) == pm.hDLL # NULL

\* if(pm->hDLL && !PluginManager_ModuleExists(pm->hDLL, NULL))
CloseFrees(rest, pm) ==
    pm.hDLL # NULL /\ ~PluginManager_ModuleExists(rest, pm.hDLL, NULLSTR)

\* The iteration that releases the library before it calls the close
\* capability.
CloseEntry_ReleaseFirst(st) ==
    LET pm     == Head(st.registry)
        rest   == Tail(st.registry)
        s1     == [st EXCEPT !.registry = rest]
        s2     == IF CloseFrees(rest, pm) THEN Free(s1, pm.hDLL) ELSE s1
        s3     == IF pm.pfnClose # NULL
                  THEN Log(s2, [ev |-> "pfnClose", fn |-> pm.pfnClose,
                                of |-> pm.wszModuleName, registry |-> rest])
                  ELSE s2
    IN  [s3 EXCEPT !.heap = @ + 1]

\* The iteration that calls the close capability while the entry is still
\* the head of the list and detaches it afterwards.
CloseEntry_CloseBeforeDetach(st) ==
    LET pm     == Head(st.registry)
        rest   == Tail(st.registry)
        s1     == IF pm.pfnClose # NULL
                  THEN Log(st, [ev |-> "pfnClose", fn |-> pm.pfnClose,
                                of |-> pm.wszModuleName, registry |-> st.registry])
                  ELSE st
        s2     == [s1 EXCEPT !.registry = rest]
        s3     == IF CloseFrees(rest, pm) THEN Free(s2, pm.hDLL) ELSE s2
    IN  [s3 EXCEPT !.heap = @ + 1]

\* One iteration of the loop of Close on loader state st: detach the head,
\* call its close capability, release its library, free the entry.
CloseEntry(st) ==
    LET pm     == Head(st.registry)
        rest   == Tail(st.registry)
        s1     == [st EXCEPT !.registry = rest]
        s2     == IF pm.pfnClose # NULL
                  THEN Log(s1, [ev |-> "pfnClose", fn |-> pm.pfnClose,
                                of |-> pm.wszModuleName, registry |-> rest])
                  ELSE s1
        s3     == IF CloseFrees(rest, pm) THEN Free(s2, pm.hDLL) ELSE s2
    IN  [s3 EXCEPT !.heap = @ + 1]                                      \* LocalFree(pm)

\* Close releasing the scripting bridge's library on entry, whatever the
\* registry holds.
CloseCall_ReleasesBridge(t) ==
    /\ pc[t] = "idle"
    /\ nClose < MaxClose
    /\ nClose' = nClose + 1
    /\ pre' = [pre EXCEPT ![t] = registry]
    /\ events' = [events EXCEPT ![t] = <<Ev_Free(hPyPlugin)>>]
    /\ libs' = FreeLibrary(libs, hPyPlugin)
    /\ call' = [call EXCEPT ![t] = [op |-> "Close", ret |-> "pending"]]
    /\ pc' = [pc EXCEPT ![t] = "closing"]
    /\ UNCHANGED <<registry, heap, leaked, lock, ri, iStep, cfgPythonPath, env, nInit>>

CloseCall(t) ==
    /\ pc[t] = "idle"
    /\ nClose < MaxClose
    /\ nClose' = nClose + 1
    /\ pre' = [pre EXCEPT ![t] = registry]
    /\ events' = [events EXCEPT ![t] = <<>>]
    /\ call' = [call EXCEPT ![t] = [op |-> "Close", ret |-> "pending"]]
    /\ pc' = [pc EXCEPT ![t] = "closing"]
    /\ UNCHANGED <<registry, heap, leaked, libs, lock, ri, iStep, cfgPythonPath, env, nInit>>

CloseStep(t) ==
    /\ pc[t] = "closing"
    /\ registry # <<>>
    /\ LET st == CloseEntry(Cur(t))
       IN  /\ registry' = st.registry
           /\ heap' = st.heap
           /\ libs' = st.libs
           /\ events' = [events EXCEPT ![t] = st.events]
    /\ UNCHANGED <<leaked, lock, pc, ri, iStep, cfgPythonPath, env, call, pre, nInit, nClose>>

\* The loop of Close ending at the last entry instead of after it.
CloseReturn_AtLastEntry(t) ==
    /\ pc[t] = "closing"
    /\ Len(registry) <= 1
    /\ call' = [call EXCEPT ![t] = [op |-> "Close", ret |-> "void"]]
    /\ pc' = [pc EXCEPT ![t] = "idle"]
    /\ UNCHANGED <<registry, heap, leaked, libs, lock, ri, iStep, cfgPythonPath, env, events,
                   pre, nInit, nClose>>

CloseReturn(t) ==
    /\ pc[t] = "closing"
    /\ registry = <<>>
    /\ call' = [call EXCEPT ![t] = [op |-> "Close", ret |-> "void"]]
    /\ pc' = [pc EXCEPT ![t] = "idle"]
    /\ UNCHANGED <<registry, heap, leaked, libs, lock, ri, iStep, cfgPythonPath, env, events,
                   pre, nInit, nClose>>

(***************************************************************************)
(* Initial states.                                                         *)
(***************************************************************************)
NoCall == [op |-> "none", ret |-> "none"]
NoEnv == [dir |-> <<>>, pyFiles |-> {}, py3 |-> FALSE, bridge |-> Lib_NoLoad]

\* Everything but the environment, the heap and the configured path.
InitCommon ==
    /\ registry = <<>>
    /\ leaked = 0
    /\ lock = NULL
    /\ pc = [t \in Threads |-> "idle"]
    /\ ri = NullRegInfo
    /\ iStep = 0
    /\ events = [t \in Threads |-> <<>>]
    /\ call = [t \in Threads |-> NoCall]
    /\ pre = [t \in Threads |-> <<>>]
    /\ nInit = 0
    /\ nClose = 0

(***************************************************************************)
(* The gateway specification: any sequence of direct Register calls by one *)
(* thread.                                                                 *)
(***************************************************************************)
GatewayHeap == 4    \* blocks available when the registry is built by direct calls

InitGateway ==
    /\ InitCommon
    /\ libs = [h \in Handles |-> 0]
    /\ heap \in {0, LowHeap, GatewayHeap}
    /\ cfgPythonPath = ""
    /\ env = NoEnv

NextGateway ==
    \/ RegisterCall("T1", RecordPool)
    \/ ListAllCall("T1")

SpecGateway == InitGateway /\ [][NextGateway]_vars

(***************************************************************************)
(* The dispatch specification: a registry built by direct Register calls   *)
(* of valid records, and any sequence of dispatch calls by one thread.     *)
(***************************************************************************)
InitDispatch ==
    /\ InitCommon
    /\ libs = [h \in Handles |-> 0]
    /\ heap = GatewayHeap
    /\ cfgPythonPath = ""
    /\ env = NoEnv

NextDispatch ==
    \/ RegisterCall("T1", ValidRecords)
    \/ ListCall("T1", QueryNames, Paths)
    \/ ReadCall("T1", QueryNames, Paths)
    \/ WriteCall("T1", QueryNames, Paths)
    \/ NotifyCall("T1")
    \/ ListAllCall("T1")

SpecDispatch == InitDispatch /\ [][NextDispatch]_vars

(***************************************************************************)
(* The context specification: a registry of built-in and native-library    *)
(* entries of process scope, and path calls by one thread.                 *)
(***************************************************************************)
ContextRecords ==
    LET builtin == PluginManager_Initialize_RegInfoInit(NULL)
        lib1    == PluginManager_Initialize_RegInfoInit("lib1")
    IN  { Fill(builtin, Name_zz, FALSE, TRUE, Caps, "z"),
          Fill(builtin, Name_b, TRUE, TRUE, {"list", "read"}, "b"),
          Fill(lib1, Name_A, TRUE, TRUE, Caps, "A") }

NextContext ==
    \/ RegisterCall("T1", ContextRecords)
    \/ ListCall("T1", QueryNames, Paths)
    \/ ReadCall("T1", QueryNames, Paths)
    \/ WriteCall("T1", QueryNames, Paths)

SpecContext == InitDispatch /\ [][NextContext]_vars

(***************************************************************************)
(* The concurrent dispatch specification: the dispatcher calls take no     *)
(* lock, so each runs its loop over the list one entry per step while the  *)
(* other thread runs its own; call[t].at is pModule, as an index into the  *)
(* list.  Registrations end before the first dispatcher call starts.       *)
(***************************************************************************)
WalkNames == {Name_b, Name_zz}

\* The dispatcher calls a thread may start: arguments, what the capability
\* answers if it gets invoked, and the caller's byte-count variable.
WalkCalls ==
    [ op : {"List"}, pProcess : Processes, wszModule : WalkNames, wszPath : {NULLSTR},
      args : {[pFileList |-> "pFileList"]}, answer : ListAnswers,
      at : {1}, ret : {"pending"}, pcb : {ByteCountBefore} ]
    \cup
    [ op : {"Read", "Write"}, pProcess : Processes, wszModule : WalkNames,
      wszPath : {<<47, 102>>}, args : {Buffer},
      answer : {[nt |-> VMMDLL_STATUS_SUCCESS, cb |-> 16]},
      at : {1}, ret : {"pending"}, pcb : {ByteCountBefore} ]
    \cup
    [ op : {"Notify"}, pProcess : {NULL}, wszModule : {NULLSTR}, wszPath : {NULLSTR},
      args : {[fEvent |-> 1, pvEvent |-> NULL, cbEvent |-> 0]}, answer : {"void"},
      at : {1}, ret : {"pending"}, pcb : {ByteCountBefore} ]
    \cup
    [ op : {"ListAll"}, pProcess : Processes, wszModule : {NULLSTR}, wszPath : {NULLSTR},
      args : {[pFileList |-> "pFileList"]}, answer : {"void"},
      at : {1}, ret : {"pending"}, pcb : {ByteCountBefore} ]

\* What a call returns when its loop runs off the end of the list.
WalkDefault(op) ==
    CASE op = "List"    -> FALSE
      [] op = "Read"    -> VMMDLL_STATUS_FILE_INVALID
      [] op = "Write"   -> VMMDLL_STATUS_FILE_INVALID
      [] op = "Notify"  -> TRUE
      [] op = "ListAll" -> "void"

\* One evaluation of the loop condition and, the cursor being on an entry,
\* one run of the loop body: the call record, the log and the position of
\* the thread afterwards.
WalkOutcome(reg, c, evs) ==
    LET next == [call |-> [c EXCEPT !.at = c.at + 1], events |-> evs, pc |-> "walk"]
    IN  IF c.at > Len(reg)
        THEN [call |-> [c EXCEPT !.ret = WalkDefault(c.op)], events |-> evs, pc |-> "idle"]
        ELSE LET pModule == reg[c.at]
                 pfn     == "pfn" \o c.op
             IN  CASE c.op = "ListAll" ->
                        IF ScopeMatches(c.pProcess, pModule)
                        THEN [next EXCEPT !.events = Append(evs,
                                  [ ev        |-> "VMMDLL_VfsList_AddDirectoryEx",
                                    pFileList |-> c.args.pFileList,
                                    wszName   |-> pModule.wszModuleName ])]
                        ELSE next
                   [] c.op = "Notify" ->
                        IF pModule.pfnNotify # NULL
                        THEN [next EXCEPT !.events = Append(evs,
                                  [ ev   |-> "pfnNotify",
                                    fn   |-> pModule.pfnNotify,
                                    of   |-> pModule.wszModuleName,
                                    args |-> c.args ])]
                        ELSE next
                   [] OTHER ->
                        IF ~ScopeMatches(c.pProcess, pModule) THEN next
                        ELSE IF pModule[pfn] # NULL /\ wcsicmp(c.wszModule, pModule.wszModuleName) = 0
                        THEN [ call   |-> IF c.op = "List"
                                          THEN [c EXCEPT !.ret = c.answer]
                                          ELSE [c EXCEPT !.ret = c.answer.nt, !.pcb = c.answer.cb],
                               events |-> Append(evs, Invocation(pfn, pModule, c.pProcess,
                                                                 c.wszPath, c.args, c.answer)),
                               pc     |-> "idle" ]
                        ELSE next

WalkUnchanged == UNCHANGED <<libs, lock, ri, iStep, cfgPythonPath, env, nInit, nClose>>

\* Thread t enters a dispatcher call: pModule is set to the head of the list.
WalkCall(t) ==
    /\ pc[t] = "idle"
    /\ \E c \in WalkCalls :
        /\ call' = [call EXCEPT ![t] = c]
        /\ events' = [events EXCEPT ![t] = <<>>]
        /\ pre' = [pre EXCEPT ![t] = registry]
        /\ pc' = [pc EXCEPT ![t] = "walk"]
    /\ UNCHANGED <<registry, heap, leaked>>
    /\ WalkUnchanged

\* The step of WalkStep with the entry that served the call moved to the
\* head of the list.
WalkStep_MoveToFront(t) ==
    /\ pc[t] = "walk"
    /\ LET o   == WalkOutcome(registry, call[t], events[t])
           hit == call[t].at
       IN  /\ call' = [call EXCEPT ![t] = o.call]
           /\ events' = [events EXCEPT ![t] = o.events]
           /\ pc' = [pc EXCEPT ![t] = o.pc]
           /\ registry' = IF o.pc = "idle" /\ Len(o.events) > 0 /\ hit <= Len(registry)
                          THEN <<registry[hit]>>
                               \o SubSeq(registry, 1, hit - 1)
                               \o SubSeq(registry, hit + 1, Len(registry))
                          ELSE registry
    /\ UNCHANGED <<heap, leaked, pre>>
    /\ WalkUnchanged

\* Thread t runs one iteration of its loop (or leaves it and returns).
WalkStep(t) ==
    /\ pc[t] = "walk"
    /\ LET o == WalkOutcome(registry, call[t], events[t])
       IN  /\ call' = [call EXCEPT ![t] = o.call]
           /\ events' = [events EXCEPT ![t] = o.events]
           /\ pc' = [pc EXCEPT ![t] = o.pc]
    /\ UNCHANGED <<registry, heap, leaked, pre>>
    /\ WalkUnchanged

\* Registration, while no thread has yet started a dispatcher call.
WalkRegister ==
    /\ \A t \in Threads : call[t].op \in {"none", "Register"}
    /\ RegisterCall("T1", ContextRecords)

NextWalk ==
    \/ WalkRegister
    \/ \E t \in Threads : WalkCall(t)
    \/ \E t \in Threads : WalkStep(t)

SpecWalk == InitDispatch /\ [][NextWalk]_vars

(***************************************************************************)
(* The language binding: VMMPYC_VfsRead (vmmpyc.c).  VMMDLL_VfsRead, which *)
(* it calls, lives outside the two files; what it answers (status and the  *)
(* byte count it stores through the pointer) is an input.                  *)
(***************************************************************************)
VFSREAD_MAX == 16777216                    \* 0x01000000

\* What the binding returns to the interpreter: a bytes object of len bytes
\* or an error (a null return with the exception set).
PyBytes(len) == [kind |-> "bytes", exc |-> "none", len |-> len]
PyError(exc) == [kind |-> "error", exc |-> exc, len |-> 0]

\* The binding returning the buffer whatever status the read returned.
VMMPYC_VfsRead_IgnoresStatus(parsed, path, cb, cbOffset, converts, allocates, out) ==
    IF ~parsed THEN [ret |-> PyError("TypeError"), events |-> <<>>]
    ELSE IF cb > VFSREAD_MAX THEN [ret |-> PyError("RuntimeError"), events |-> <<>>]
    ELSE IF ~converts THEN [ret |-> PyError("ValueError"), events |-> <<>>]
    ELSE IF ~allocates THEN [ret |-> PyError("MemoryError"), events |-> <<>>]
    ELSE [ ret    |-> PyBytes(out.cb),
           events |-> << [ev |-> "VMMDLL_VfsRead", wszPath |-> path, cb |-> cb,
                          cbOffset |-> cbOffset, returned |-> out] >> ]

\* VMMPYC_VfsRead: what it returns and the calls of VMMDLL_VfsRead it makes.
\* parsed: PyArg_ParseTuple succeeds; converts: PyUnicode_AsWideCharString
\* succeeds; allocates: LocalAlloc succeeds; out: the answer of the read.
VMMPYC_VfsRead(parsed, path, cb, cbOffset, converts, allocates, out) ==
    IF ~parsed THEN [ret |-> PyError("TypeError"), events |-> <<>>]
    ELSE IF cb > VFSREAD_MAX THEN [ret |-> PyError("RuntimeError"), events |-> <<>>]
    ELSE IF ~converts THEN [ret |-> PyError("ValueError"), events |-> <<>>]
    ELSE IF ~allocates THEN [ret |-> PyError("MemoryError"), events |-> <<>>]
    ELSE [ ret    |-> IF out.nt # VMMDLL_STATUS_SUCCESS THEN PyError("RuntimeError")
                      ELSE PyBytes(out.cb),
           events |-> << [ev |-> "VMMDLL_VfsRead", wszPath |-> path, cb |-> cb,
                          cbOffset |-> cbOffset, returned |-> out] >> ]

\* The requests of the model: sizes around the limit, two offsets, three paths.
VfsReadSizes == {0, 16, VFSREAD_MAX, VFSREAD_MAX + 1}
VfsReadOffsets == {0, 4096}
VfsReadPaths == { <<>>, <<47, 102>>, <<47, 112, 47, 102>> }      \* "", "/f", "/p/f"

\* What VMMDLL_VfsRead can answer to a request of cb bytes: a status and the
\* byte count, which a failing read may have set too.
VfsReadAnswers(cb) ==
    { [nt |-> VMMDLL_STATUS_SUCCESS, cb |-> n] : n \in {0, cb} }
        \cup { [nt |-> VMMDLL_STATUS_END_OF_FILE, cb |-> 0],
               [nt |-> VMMDLL_STATUS_FILE_INVALID, cb |-> 0],
               [nt |-> VMMDLL_STATUS_FILE_INVALID, cb |-> cb] }

\* Thread t calls VMMPYC_VfsRead.
VfsReadCall(t) ==
    /\ pc[t] = "idle"
    /\ \E parsed, converts, allocates \in BOOLEAN, path \in VfsReadPaths,
          cb \in VfsReadSizes, cbOffset \in VfsReadOffsets :
        \E out \in VfsReadAnswers(cb) :
            LET r == VMMPYC_VfsRead(parsed, path, cb, cbOffset, converts, allocates, out)
            IN  Completed(t, [op |-> "VfsRead", parsed |-> parsed, wszPath |-> path,
                              cb |-> cb, cbOffset |-> cbOffset, ret |-> r.ret],
                          r.events)
    /\ UNCHANGED <<registry, heap, leaked>>
    /\ NoLoaderStep

NextVfsRead == VfsReadCall("T1")

SpecVfsRead == InitDispatch /\ [][NextVfsRead]_vars

(***************************************************************************)
(* The lifecycle specification: one thread brings the registry up, uses it *)
(* and tears it down, over every content of the plugins directory.         *)
(***************************************************************************)
\* The sequences of at most n elements of S.
RECURSIVE SeqsUpTo(_, _)
SeqsUpTo(S, n) ==
    IF n = 0 THEN { <<>> }
    ELSE LET shorter == SeqsUpTo(S, n - 1)
         IN  shorter \cup { Append(q, x) : q \in { r \in shorter : Len(r) = n - 1 }, x \in S }

\* The interpreter installations of the lifecycle specification.
PyEnvs ==
    { [pyFiles |-> {}, py3 |-> FALSE, bridge |-> Lib_NoLoad],
      [pyFiles |-> {<<"exe", 2>>}, py3 |-> TRUE, bridge |-> Lib_Py],
      [pyFiles |-> {<<"dflt", 1>>}, py3 |-> TRUE, bridge |-> Lib_Silent] }

Envs ==
    { [dir |-> d, pyFiles |-> p.pyFiles, py3 |-> p.py3, bridge |-> p.bridge] :
        d \in SeqsUpTo(DirLibs, MaxCand), p \in PyEnvs }

\* The modules the caller asks for once the loader has run.
LoaderQueryNames == {Name_p, Name_q, Name_A, Name_B}

Init ==
    /\ InitCommon
    /\ libs = [h \in Handles |-> 0]
    /\ heap \in {0, LowHeap, HeapBlocks}
    /\ cfgPythonPath = ""
    /\ env \in Envs

Next ==
    \/ InitializeCall("T1")
    \/ InitializeEnter("T1")
    \/ InitializeBuiltin("T1")
    \/ InitializeScan("T1")
    \/ InitializePython("T1")
    \/ InitializeLeave("T1")
    \/ CloseCall("T1")
    \/ CloseStep("T1")
    \/ CloseReturn("T1")

Spec == Init /\ [][Next]_vars

(***************************************************************************)
(* The use specification: one thread brings the registry up, over every    *)
(* content of the plugins directory, and then lists and reads.             *)
(***************************************************************************)
InitUse ==
    /\ InitCommon
    /\ libs = [h \in Handles |-> 0]
    /\ heap = HeapBlocks
    /\ cfgPythonPath = ""
    /\ env \in { e \in Envs : e.bridge = Lib_Py }

NextUse ==
    \/ InitializeCall("T1")
    \/ InitializeEnter("T1")
    \/ InitializeBuiltin("T1")
    \/ InitializeScan("T1")
    \/ InitializePython("T1")
    \/ InitializeLeave("T1")
    \/ ListCall("T1", LoaderQueryNames, {NULLSTR})
    \/ ReadCall("T1", LoaderQueryNames, {NULLSTR})

SpecUse == InitUse /\ [][NextUse]_vars

(***************************************************************************)
(* The interpreter-search specification: the lifecycle of one thread over  *)
(* interpreter installations at every location, with and without a         *)
(* configured path (ctxMain->cfg.szPythonPath as the command line left it).*)
(***************************************************************************)
PyFiles == { <<"user", 1>>, <<"user", 3>>, <<"exe", 2>>, <<"dflt", 1>>, <<"dflt", 2>> }

SearchEnvs ==
    [ dir : { <<>>, <<Lib_P>> }, pyFiles : SUBSET PyFiles, py3 : {TRUE},
      bridge : {Lib_Py, Lib_NoLoad}, szPythonPath : {"", "user"} ]

InitPy ==
    /\ InitCommon
    /\ libs = [h \in Handles |-> 0]
    /\ heap = HeapBlocks
    /\ env \in SearchEnvs
    /\ cfgPythonPath = env.szPythonPath

SpecPy == InitPy /\ [][Next]_vars

(***************************************************************************)
(* The concurrent specification: two threads call PluginManager_Initialize.*)
(***************************************************************************)
InitConc ==
    /\ InitCommon
    /\ libs = [h \in Handles |-> 0]
    /\ heap = HeapBlocks
    /\ cfgPythonPath = ""
    /\ env \in { e \in Envs : Len(e.dir) <= 1 }

NextConc ==
    \E t \in Threads :
        \/ InitializeCall(t)
        \/ InitializeEnter(t)
        \/ InitializeBuiltin(t)
        \/ InitializeScan(t)
        \/ InitializePython(t)
        \/ InitializeLeave(t)

SpecConc == InitConc /\ [][NextConc]_vars

(***************************************************************************)
(* Properties.                                                             *)
(***************************************************************************)
\* Equality of names ignoring case, stated without _wcsicmp.
SameNameIgnoringCase(n1, n2) ==
    /\ Len(n1) = Len(n2)
    /\ \A k \in 1..Len(n1) : towlower(n1[k]) = towlower(n2[k])

\* The entries of reg whose scope fits a call with process argument pProcess.
EligibleFor(reg, pProcess) ==
    { i \in 1..Len(reg) : IF pProcess = NULL THEN reg[i].fRootModule
                                             ELSE reg[i].fProcessModule }

\* The eligible entries named wszModule, ignoring case.
Addressed(reg, pProcess, wszModule) ==
    { i \in EligibleFor(reg, pProcess) : SameNameIgnoringCase(reg[i].wszModuleName, wszModule) }

\* C1: under any sequence of Register calls no two registry entries have
\* names equal ignoring case, and a Register call whose name equals, ignoring
\* case, the name of an existing entry returns FALSE and leaves every
\* existing entry (library reference, scope flags, capabilities) as it was.
C1_UniqueNamesFirstWins ==
    /\ \A i, j \in 1..Len(registry) :
        i # j => ~SameNameIgnoringCase(registry[i].wszModuleName, registry[j].wszModuleName)
    /\ \A t \in Threads :
        ( /\ call[t].op = "Register"
          /\ ~call[t].pRegInfo.null
          /\ \E i \in 1..Len(pre[t]) :
                SameNameIgnoringCase(pre[t][i].wszModuleName, call[t].pRegInfo.wszModuleName) )
        => (call[t].ret = FALSE /\ registry = pre[t])

\* C1 witness: a record whose name differs only by case from an entry of
\* another library, scope and capability set has been rejected.
C1_Witness ==
    \E t \in Threads : \E i \in 1..Len(registry) :
        /\ call[t].op = "Register"
        /\ call[t].ret = FALSE
        /\ ~call[t].pRegInfo.null
        /\ wcslen(call[t].pRegInfo.wszModuleName) > 0
        /\ SameNameIgnoringCase(registry[i].wszModuleName, call[t].pRegInfo.wszModuleName)
        /\ registry[i].wszModuleName # call[t].pRegInfo.wszModuleName
        /\ registry[i].hDLL # call[t].pRegInfo.hDLL
        /\ registry[i].fRootModule # call[t].pRegInfo.fRootModule
        /\ registry[i].pfnRead # call[t].pRegInfo.pfnRead

\* C2: whenever Register returns FALSE the registry is the same sequence of
\* entries with the same contents as before the call.
C2_FailureLeavesRegistry ==
    \A t \in Threads :
        (call[t].op = "Register" /\ call[t].ret = FALSE) => registry = pre[t]

\* C2 witness: a record without scope flag, for which Register allocates an
\* entry before it returns FALSE, was rejected on a non-empty registry.
C2_Witness ==
    \E t \in Threads :
        /\ call[t].op = "Register"
        /\ call[t].ret = FALSE
        /\ ~call[t].pRegInfo.null
        /\ ~call[t].pRegInfo.fRootModule /\ ~call[t].pRegInfo.fProcessModule
        /\ leaked > 0
        /\ Len(registry) >= 2

\* C3: a List call invokes nothing and returns FALSE when no entry of fitting
\* scope (process flag for a call with process, root flag for a call
\* without) carries the name; otherwise it invokes the list capability of
\* that entry exactly once and returns what the capability answered.
C3_ListScope ==
    \A t \in Threads :
        call[t].op = "List" =>
            LET hit == Addressed(registry, call[t].pProcess, call[t].wszModule)
            IN  IF hit = {}
                THEN events[t] = <<>> /\ call[t].ret = FALSE
                ELSE /\ Len(events[t]) = 1
                     /\ events[t][1].ev = "pfnList"
                     /\ \E i \in hit : events[t][1].fn = registry[i].pfnList
                     /\ call[t].ret = events[t][1].returned

\* C3 witness: List with a process reached a module registered for process
\* scope only, whose capability answered TRUE.
C3_Witness ==
    \E t \in Threads : \E i \in 1..Len(registry) :
        /\ call[t].op = "List"
        /\ call[t].pProcess # NULL
        /\ registry[i].fProcessModule /\ ~registry[i].fRootModule
        /\ SameNameIgnoringCase(registry[i].wszModuleName, call[t].wszModule)
        /\ Len(events[t]) = 1
        /\ call[t].ret = TRUE

\* C4: a Read (Write) call addressed to an entry of fitting scope and name
\* that has no read (write) capability returns VMMDLL_STATUS_FILE_INVALID, as
\* for an unknown module, and invokes no capability.
C4_MissingCapability ==
    \A t \in Threads :
        call[t].op \in {"Read", "Write"} =>
            LET pfn == IF call[t].op = "Read" THEN "pfnRead" ELSE "pfnWrite"
                hit == Addressed(registry, call[t].pProcess, call[t].wszModule)
            IN  (hit = {} \/ \A i \in hit : registry[i][pfn] = NULL)
                    => /\ call[t].ret = VMMDLL_STATUS_FILE_INVALID
                       /\ events[t] = <<>>

\* C4 witness: a Read addressed an entry of fitting scope and name that has
\* a list capability but no read capability.
C4_Witness ==
    \E t \in Threads :
        /\ call[t].op = "Read"
        /\ \E i \in Addressed(registry, call[t].pProcess, call[t].wszModule) :
            /\ registry[i].pfnRead = NULL
            /\ registry[i].pfnList # NULL
            /\ call[t].ret = VMMDLL_STATUS_FILE_INVALID

\* C6: a Notify call invokes the notify capability of every entry that has
\* one exactly once, whatever the entry's scope flags, with the event id,
\* payload and payload size it was given; it makes no other invocation and
\* returns TRUE, also on an empty registry.
C6_NotifyAll ==
    \A t \in Threads :
        call[t].op = "Notify" =>
            /\ call[t].ret = TRUE
            /\ Len(events[t]) = Cardinality({ i \in 1..Len(registry) : registry[i].pfnNotify # NULL })
            /\ \A i \in 1..Len(registry) :
                registry[i].pfnNotify # NULL =>
                    Cardinality({ k \in 1..Len(events[t]) :
                                    /\ events[t][k].ev = "pfnNotify"
                                    /\ events[t][k].fn = registry[i].pfnNotify
                                    /\ events[t][k].args = call[t].args }) = 1

\* C6 witness: a Notify call reached a root-only and a process-only entry.
C6_Witness ==
    \E t \in Threads : \E i, j \in 1..Len(registry) :
        /\ call[t].op = "Notify"
        /\ registry[i].pfnNotify # NULL /\ ~registry[i].fProcessModule
        /\ registry[j].pfnNotify # NULL /\ ~registry[j].fRootModule
        /\ Len(events[t]) = 2
        /\ Len(registry) = 3

(***************************************************************************)
(* Properties of teardown and bring-up.                                    *)
(***************************************************************************)
\* How often thread t's call invoked the close capability of entry pm.
Closes(t, pm) ==
    Cardinality({ k \in 1..Len(events[t]) :
                    /\ events[t][k].ev = "pfnClose"
                    /\ events[t][k].fn = pm.pfnClose
                    /\ events[t][k].of = pm.wszModuleName })

\* How often thread t's call released library handle h.
Frees(t, h) ==
    Cardinality({ k \in 1..Len(events[t]) :
                    events[t][k].ev = "FreeLibrary" /\ events[t][k].h = h })

\* The library handles the entries of reg reference.
HandlesOf(reg) == { reg[i].hDLL : i \in 1..Len(reg) } \ {NULL}

\* C5: when PluginManager_Close has returned, the close capability of every
\* entry the registry held that has one was invoked exactly once, every
\* distinct library handle the registry referenced was released exactly
\* once, also when several entries shared it, and nothing else was invoked
\* or released; while teardown runs nothing is invoked or released twice.
C5_CloseOnce ==
    \A t \in Threads :
        call[t].op = "Close" =>
            /\ \A i \in 1..Len(pre[t]) :
                pre[t][i].pfnClose # NULL => Closes(t, pre[t][i]) <= 1
            /\ \A h \in Handles : Frees(t, h) <= 1
            /\ call[t].ret = "void" =>
                /\ registry = <<>>
                /\ \A i \in 1..Len(pre[t]) :
                    pre[t][i].pfnClose # NULL => Closes(t, pre[t][i]) = 1
                /\ \A h \in Handles :
                    Frees(t, h) = IF h \in HandlesOf(pre[t]) THEN 1 ELSE 0
                /\ Len(events[t]) =
                        Cardinality({ i \in 1..Len(pre[t]) : pre[t][i].pfnClose # NULL })
                        + Cardinality(HandlesOf(pre[t]))

\* C5 witness: teardown has returned for a registry in which two entries
\* with close capability shared one library handle and a built-in entry
\* with close capability had none.
C5_Witness ==
    \E t \in Threads : \E i, j, k \in 1..Len(pre[t]) :
        /\ call[t].op = "Close"
        /\ call[t].ret = "void"
        /\ i # j
        /\ pre[t][i].hDLL # NULL
        /\ pre[t][i].hDLL = pre[t][j].hDLL
        /\ pre[t][i].pfnClose # NULL /\ pre[t][j].pfnClose # NULL
        /\ pre[t][k].hDLL = NULL /\ pre[t][k].pfnClose # NULL
        /\ Frees(t, pre[t][i].hDLL) = 1

\* C7: a PluginManager_Initialize call made after a bring-up has completed
\* and before any teardown returns FALSE, runs no initializer, loads no
\* library and leaves the registry as the first call left it, whatever the
\* first bring-up produced.
C7_SecondInitializeRejected ==
    \A t \in Threads :
        (call[t].op = "Initialize" /\ nInit = 2 /\ nClose = 0) =>
            /\ pc[t] = "idle"
            /\ call[t].ret = FALSE
            /\ events[t] = <<>>
            /\ registry = pre[t]

\* No call is in progress and bring-up or teardown was the last to return.
Quiescent ==
    /\ \A t \in Threads : pc[t] = "idle"
    /\ \E t \in Threads : call[t].op \in {"Initialize", "Close"}

\* C8: at every quiescent point a library the loader can open is loaded if
\* and only if at least one registry entry references its handle.
C8_LoadedIffReferenced ==
    Quiescent =>
        \A h \in Handles : (libs[h] > 0) <=> (h \in HandlesOf(registry))

\* Thread t's PluginManager_Initialize call was made on an uninitialized
\* registry and has executed bring-up work.
RanBringUp(t) ==
    /\ call[t].op = "Initialize"
    /\ pre[t] = <<>>
    /\ events[t] # <<>>

\* C9: of two threads that call PluginManager_Initialize on an uninitialized
\* registry at most one executes bring-up phases.
C9_AtMostOneBringUp ==
    \A t, u \in Threads : t # u => ~(RanBringUp(t) /\ RanBringUp(u))

\* The registration attempts the entry points of the plugins directory make,
\* <<i, k>> being attempt k of candidate file i, in the order of the scan.
DirAttempts ==
    UNION { { <<i, k>> : k \in 1..Len(env.dir[i].regs) } :
                i \in { j \in 1..Len(env.dir) : env.dir[j].loads /\ env.dir[j].export } }

AttemptAt(p) == env.dir[p[1]].regs[p[2]]

\* Attempt p describes a module the gateway takes: it has a scope and a
\* list capability, a name of 1..31 code units that no built-in module
\* carries and that no earlier attempt with a scope carried, ignoring case.
WellFormedAttempt(p) ==
    LET a == AttemptAt(p)
    IN  /\ a.fRoot \/ a.fProc
        /\ "list" \in a.caps
        /\ Len(a.name) \in 1..MaxNameLen
        /\ \A b \in 1..NumBuiltin : ~SameNameIgnoringCase(BuiltinName(b), a.name)
        /\ \A q \in DirAttempts :
            ( /\ q[1] < p[1] \/ (q[1] = p[1] /\ q[2] < p[2])
              /\ AttemptAt(q).fRoot \/ AttemptAt(q).fProc )
            => ~SameNameIgnoringCase(AttemptAt(q).name, a.name)

\* The well-formed attempts of candidate i that leave the library handle of
\* the template in the record.
WellFormedOf(i) ==
    { p \in DirAttempts : p[1] = i /\ AttemptAt(p).origin = "own" /\ WellFormedAttempt(p) }

\* Entry pm is what attempt p of candidate p[1] registers.
EntryOfAttempt(pm, p) ==
    LET a == AttemptAt(p)
    IN  /\ pm.hDLL = CandHandle(p[1])
        /\ pm.wszModuleName = a.name
        /\ pm.fRootModule = a.fRoot
        /\ pm.fProcessModule = a.fProc
        /\ pm.pfnList = Fn(CandHandle(p[1]), "list", a.caps)
        /\ pm.pfnRead = Fn(CandHandle(p[1]), "read", a.caps)

Scanned(t) ==
    IF call[t].op # "Initialize" THEN {}
    ELSE IF pc[t] = "init_scan" THEN 1..(iStep - 1)
    ELSE IF pc[t] \in {"init_python", "init_leave"} THEN 1..Len(env.dir)
    ELSE IF pc[t] = "idle" /\ call[t].ret = TRUE THEN 1..Len(env.dir)
    ELSE {}

\* The positions in thread t's events of the load attempts of file h, of its
\* releases, and of the successful registrations its code made with handle h.
LoadsAt(t, h) ==
    { k \in 1..Len(events[t]) : events[t][k].ev = "LoadLibrary" /\ events[t][k].file = h }
FreesAt(t, h) ==
    { k \in 1..Len(events[t]) : events[t][k].ev = "FreeLibrary" /\ events[t][k].h = h }
OwnRegistrationsAt(t, h) ==
    { k \in 1..Len(events[t]) :
        /\ events[t][k].ev = "Register"
        /\ events[t][k].by = h
        /\ events[t][k].hDLL = h
        /\ events[t][k].ret = TRUE }

\* C11: in phase 2 every candidate file is tried once, in order; one that
\* fails to load is skipped; one whose entry point returned without a
\* successful registration carrying the library's own handle is released
\* before the next candidate is tried and is no longer loaded; one that
\* registered is not released; and the call returns TRUE.
C11_ScanUnloadsUnregistered ==
    \A t \in Threads :
        /\ \A i \in Scanned(t) :
            LET h == CandHandle(i)
            IN  /\ Cardinality(LoadsAt(t, h)) = 1
                /\ ~env.dir[i].loads =>
                    /\ \A k \in LoadsAt(t, h) : events[t][k].ret = NULL
                    /\ FreesAt(t, h) = {}
                    /\ libs[h] = 0
                /\ (env.dir[i].loads /\ OwnRegistrationsAt(t, h) = {}) =>
                    /\ Cardinality(FreesAt(t, h)) = 1
                    /\ libs[h] = 0
                    /\ \A k \in FreesAt(t, h) : \A j \in Scanned(t) :
                            j > i => \A m \in LoadsAt(t, CandHandle(j)) : k < m
                /\ (env.dir[i].loads /\ OwnRegistrationsAt(t, h) # {}) =>
                    /\ FreesAt(t, h) = {}
                    /\ libs[h] = 1
        /\ (call[t].op = "Initialize" /\ pc[t] = "idle" /\ events[t] # <<>>) =>
                call[t].ret = TRUE

\* C11 witness: bring-up has returned TRUE after a scan in which the first
\* candidate's registration was refused and the library released, and the
\* second candidate registered and stayed loaded.
C11_Witness ==
    \E t \in Threads :
        /\ call[t].op = "Initialize"
        /\ pc[t] = "idle"
        /\ call[t].ret = TRUE
        /\ Len(env.dir) = 2
        /\ env.dir[1] = Lib_NoScope
        /\ \E k \in 1..Len(events[t]) :
            /\ events[t][k].ev = "Register"
            /\ events[t][k].by = CandHandle(1)
            /\ events[t][k].ret = FALSE
        /\ FreesAt(t, CandHandle(1)) # {}
        /\ OwnRegistrationsAt(t, CandHandle(2)) # {}
        /\ libs[CandHandle(2)] = 1

\* The handles PluginManager_Initialize_Python can open.
PythonHandles == Handles \ { CandHandle(i) : i \in 1..(MaxCand + 1) }

\* Thread t's PluginManager_Initialize call is past the scripting-bridge phase.
PythonPhaseReturned(t) ==
    /\ call[t].op = "Initialize"
    /\ \/ pc[t] = "init_leave"
       \/ pc[t] = "idle" /\ call[t].ret = TRUE

\* The positions in thread t's events of the successful loads of handle h.
OpenedAt(t, h) ==
    { k \in 1..Len(events[t]) : events[t][k].ev = "LoadLibrary" /\ events[t][k].ret = h }

\* C12: when the scripting-bridge phase has returned without the bridge
\* having registered a module of its own, every library handle the phase
\* opened has been released as often as it was opened and is not loaded.
C12_PythonFailureReleasesAll ==
    \A t \in Threads :
        (PythonPhaseReturned(t) /\ OwnRegistrationsAt(t, hPyPlugin) = {}) =>
            \A h \in PythonHandles :
                /\ Cardinality(OpenedAt(t, h)) = Cardinality(FreesAt(t, h))
                /\ libs[h] = 0

\* The code units of the built-in initializers.
BuiltinCodes == { BuiltinCode(b) : b \in 1..NumBuiltin }

\* The built-in modules a dispatch with process argument pProcess for
\* wszModule addresses, by name ignoring case and scope.
BuiltinsAddressed(pProcess, wszModule) ==
    { b \in 1..NumBuiltin :
        /\ SameNameIgnoringCase(BuiltinName(b), wszModule)
        /\ IF pProcess = NULL THEN BuiltinModule(b).fRoot ELSE BuiltinModule(b).fProc }

\* C13: during a bring-up, a registration by a plugin library or by the
\* scripting bridge of a name that a built-in module registered before it,
\* ignoring case, returns FALSE; afterwards the only entry of that name is
\* the built-in one, with a null library reference, and a List or Read for
\* the name invokes the built-in module's capability.
C13_BuiltinWinsCollision ==
    \A t \in Threads :
        /\ call[t].op = "Initialize" =>
            \A k, m \in 1..Len(events[t]) :
                ( /\ k < m
                  /\ events[t][k].ev = "Register"
                  /\ events[t][k].by \in BuiltinCodes
                  /\ events[t][k].ret = TRUE
                  /\ events[t][m].ev = "Register"
                  /\ events[t][m].by \notin BuiltinCodes
                  /\ SameNameIgnoringCase(events[t][k].wszModuleName,
                                          events[t][m].wszModuleName) )
                => events[t][m].ret = FALSE
        /\ (nInit >= 1 /\ pc[t] = "idle" /\ call[t].op \in {"List", "Read"}) =>
            \A b \in BuiltinsAddressed(call[t].pProcess, call[t].wszModule) :
                /\ \A i \in 1..Len(registry) :
                    SameNameIgnoringCase(registry[i].wszModuleName, call[t].wszModule)
                        => /\ registry[i].hDLL = NULL
                           /\ registry[i].wszModuleName = BuiltinName(b)
                /\ Len(events[t]) = 1
                /\ events[t][1].fn =
                        Fn(BuiltinCode(b), IF call[t].op = "List" THEN "list" ELSE "read",
                           BuiltinModule(b).caps)
                /\ events[t][1].ctx.wszModule = BuiltinName(b)

\* C13 witness: a plugin library that tried the name "B" after the built-in
\* "b" registered another module and stayed loaded, and a List for "B"
\* reached the built-in module.
C13_Witness ==
    \E t \in Threads : \E i \in 1..Len(env.dir) :
        /\ nInit >= 1 /\ pc[t] = "idle"
        /\ call[t].op = "List"
        /\ call[t].wszModule = Name_B
        /\ env.dir[i] = Lib_QB
        /\ libs[CandHandle(i)] = 1
        /\ Len(events[t]) = 1
        /\ events[t][1].fn = Fn(BuiltinCode(2), "list", {"list"})
        /\ events[t][1].ctx.wszModule = Name_b

(***************************************************************************)
(* The record specification: PluginManager_Register as a function of the   *)
(* record.  The caller's record `ri` is drawn at the start from every      *)
(* combination of field values and handed to the gateway, on an empty      *)
(* registry or after a module named "Q" was registered.                    *)
(***************************************************************************)
Name_Q == <<81>>                                \* "Q"

\* The capability sets of the records tried.
RecordCaps == { Caps, {"list"}, Caps \ {"list"}, {} }

\* The names of the records tried: empty, "q", 31 and 32 code units.
RecordNames == { <<>>, Name_q, Name_31, Name_32 }

AnyRecords ==
    { [ Fill(PluginManager_Initialize_RegInfoInit(h), name, fRoot, fProc, caps, "r")
          EXCEPT !.magic = mg, !.wVersion = v, !.wSize = sz ] :
        h \in {NULL, "lib1"}, name \in RecordNames, fRoot \in BOOLEAN, fProc \in BOOLEAN,
        caps \in RecordCaps, mg \in {VMMDLL_PLUGIN_REGINFO_MAGIC, "0"},
        v \in { VMMDLL_PLUGIN_REGINFO_VERSION - 1, VMMDLL_PLUGIN_REGINFO_VERSION,
                VMMDLL_PLUGIN_REGINFO_VERSION + 1 },
        sz \in { SIZEOF_REGINFO, "sizeof(VMMDLL_PLUGIN_REGINFO) + 8" } }

\* The module registered before the caller's record on some behaviours.
EarlierRecord ==
    Fill(PluginManager_Initialize_RegInfoInit(NULL), Name_Q, TRUE, FALSE, {"list"}, "Q")

InitRecord ==
    /\ registry = <<>>
    /\ leaked = 0
    /\ lock = NULL
    /\ pc = [t \in Threads |-> "idle"]
    /\ ri \in AnyRecords
    /\ iStep = 0
    /\ events = [t \in Threads |-> <<>>]
    /\ call = [t \in Threads |-> NoCall]
    /\ pre = [t \in Threads |-> <<>>]
    /\ nInit = 0
    /\ nClose = 0
    /\ libs = [h \in Handles |-> 0]
    /\ heap \in {0, LowHeap}
    /\ cfgPythonPath = ""
    /\ env = NoEnv

NextRecord ==
    \/ RegisterCall("T1", {EarlierRecord})
    \/ RegisterCall("T1", {ri})

SpecRecord == InitRecord /\ [][NextRecord]_vars

\* Thread t's last call handed the caller's record to the gateway.
RecordTried(t) == call[t].op = "Register" /\ call[t].pRegInfo = ri

\* Memory was available to thread t's Register call: the heap is not
\* exhausted after it, or the call took the last block for its entry.
MemoryWasAvailable(t) == heap > 0 \/ Len(registry) > Len(pre[t])

\* C14: PluginManager_Register returns FALSE for every record in which
\* neither the root flag nor the process flag is set, whatever its handle,
\* name, capabilities, magic, version and declared size, and links nothing.
C14_NoScopeRejected ==
    \A t \in Threads :
        (RecordTried(t) /\ ~ri.fRootModule /\ ~ri.fProcessModule) =>
            /\ call[t].ret = FALSE
            /\ registry = pre[t]

\* C14 witness: a record valid in every field but the scope flags, with a
\* fresh name, was refused on a non-empty registry after its entry had been
\* allocated.
C14_Witness ==
    \E t \in Threads :
        /\ RecordTried(t)
        /\ ~ri.fRootModule /\ ~ri.fProcessModule
        /\ ri.magic = VMMDLL_PLUGIN_REGINFO_MAGIC
        /\ ri.wVersion = VMMDLL_PLUGIN_REGINFO_VERSION
        /\ ri.wSize = SIZEOF_REGINFO
        /\ ri.pfnList # NULL /\ ri.pfnRead # NULL
        /\ ri.wszModuleName = Name_31
        /\ pre[t] # <<>>
        /\ leaked > 0
        /\ call[t].ret = FALSE

\* C15: PluginManager_Register returns FALSE for every record without list
\* capability, whatever its other capabilities and fields, and links
\* nothing.
C15_NoListRejected ==
    \A t \in Threads :
        (RecordTried(t) /\ ri.pfnList = NULL) =>
            /\ call[t].ret = FALSE
            /\ registry = pre[t]

\* C15 witness: a record with read, write, notify and close capability but
\* no list capability, valid in every other field, with a fresh name and
\* memory available, was refused.
C15_Witness ==
    \E t \in Threads :
        /\ RecordTried(t)
        /\ ri.pfnList = NULL
        /\ ri.pfnRead # NULL /\ ri.pfnWrite # NULL /\ ri.pfnNotify # NULL /\ ri.pfnClose # NULL
        /\ ri.fRootModule /\ ri.fProcessModule
        /\ ri.magic = VMMDLL_PLUGIN_REGINFO_MAGIC
        /\ ri.wVersion = VMMDLL_PLUGIN_REGINFO_VERSION
        /\ ri.wSize = SIZEOF_REGINFO
        /\ ri.wszModuleName = Name_q
        /\ pre[t] = <<>>
        /\ heap > 0
        /\ call[t].ret = FALSE

\* C16: every registry entry has the root or the process flag set, a list
\* capability and a name of 1..31 code units, which with its terminator fits
\* the 32 units of the entry; a record with an empty name or a name of more
\* than 31 code units is refused; the name of an accepted record, also one
\* of exactly 31 code units, is stored in full.
C16_EntriesWellFormed ==
    /\ \A i \in 1..Len(registry) :
        /\ registry[i].fRootModule \/ registry[i].fProcessModule
        /\ registry[i].pfnList # NULL
        /\ Len(registry[i].wszModuleName) \in 1..MaxNameLen
        /\ Len(registry[i].wszModuleName) < NameCapacity
    /\ \A t \in Threads :
        RecordTried(t) =>
            /\ (Len(ri.wszModuleName) = 0 \/ Len(ri.wszModuleName) > MaxNameLen) =>
                    (call[t].ret = FALSE /\ registry = pre[t])
            /\ call[t].ret = TRUE =>
                    /\ registry = <<Head(registry)>> \o pre[t]
                    /\ Head(registry).wszModuleName = ri.wszModuleName

\* C16 witness: a record with a name of exactly 31 code units was accepted
\* and the entry carries the 31 units.
C16_Witness ==
    \E t \in Threads :
        /\ RecordTried(t)
        /\ call[t].ret = TRUE
        /\ Len(ri.wszModuleName) = MaxNameLen
        /\ Len(Head(registry).wszModuleName) = MaxNameLen
        /\ Head(registry).wszModuleName = Name_31

\* The record is acceptable in everything but magic, version and size, and
\* thread t's call found its name free and memory available.
AcceptableButHeader(t) ==
    /\ ri.pfnList # NULL
    /\ Len(ri.wszModuleName) \in 1..MaxNameLen
    /\ ri.fRootModule \/ ri.fProcessModule
    /\ \A i \in 1..Len(pre[t]) :
            ~SameNameIgnoringCase(pre[t][i].wszModuleName, ri.wszModuleName)
    /\ MemoryWasAvailable(t)

\* C17: PluginManager_Register returns FALSE for a record whose magic is not
\* the registration magic or whose version exceeds the supported maximum,
\* and accepts a record of a lower version that is acceptable otherwise.
C17_MagicAndVersion ==
    \A t \in Threads :
        RecordTried(t) =>
            /\ (ri.magic # VMMDLL_PLUGIN_REGINFO_MAGIC
                    \/ ri.wVersion > VMMDLL_PLUGIN_REGINFO_VERSION) =>
                    (call[t].ret = FALSE /\ registry = pre[t])
            /\ ( /\ ri.magic = VMMDLL_PLUGIN_REGINFO_MAGIC
                 /\ ri.wVersion < VMMDLL_PLUGIN_REGINFO_VERSION
                 /\ AcceptableButHeader(t) ) => call[t].ret = TRUE

\* C17 witness: a record of the version below the maximum was accepted on a
\* registry that held an entry already.
C17_Witness ==
    \E t \in Threads :
        /\ RecordTried(t)
        /\ ri.wVersion = VMMDLL_PLUGIN_REGINFO_VERSION - 1
        /\ call[t].ret = TRUE
        /\ Len(registry) = 2

\* C18: PluginManager_Register returns FALSE for a record whose declared
\* size is not the size of the registration record.
C18_DeclaredSizeChecked ==
    \A t \in Threads :
        (RecordTried(t) /\ ri.wSize # SIZEOF_REGINFO) => call[t].ret = FALSE

\* C19: a List, Read or Write call for which no entry of fitting scope
\* carries the name (the name is unknown, or carried only by an entry of the
\* other scope) invokes no capability, leaves the registry and the caller's
\* byte count as they were, and returns FALSE (List) or
\* VMMDLL_STATUS_FILE_INVALID (Read, Write).
C19_NoMatchNoEffect ==
    \A t \in Threads :
        ( /\ call[t].op \in {"List", "Read", "Write"}
          /\ Addressed(registry, call[t].pProcess, call[t].wszModule) = {} )
        => /\ events[t] = <<>>
           /\ registry = pre[t]
           /\ IF call[t].op = "List"
              THEN call[t].ret = FALSE
              ELSE /\ call[t].ret = VMMDLL_STATUS_FILE_INVALID
                   /\ call[t].pcb = ByteCountBefore

\* C19 witness: a Write without process named a module that is registered
\* for process scope only, with write capability; nothing was invoked.
C19_Witness ==
    \E t \in Threads : \E i \in 1..Len(registry) :
        /\ call[t].op = "Write"
        /\ call[t].pProcess = NULL
        /\ SameNameIgnoringCase(registry[i].wszModuleName, call[t].wszModule)
        /\ registry[i].pfnWrite # NULL
        /\ registry[i].fProcessModule /\ ~registry[i].fRootModule
        /\ events[t] = <<>>
        /\ call[t].ret = VMMDLL_STATUS_FILE_INVALID
        /\ call[t].pcb = ByteCountBefore

\* C20: when PluginManager_Close has returned, the registry is empty and
\* the registry handle reads as null ('not initialized'), whatever the
\* registry held when the call started.
C20_CloseEmptiesRegistry ==
    \A t \in Threads :
        (call[t].op = "Close" /\ pc[t] = "idle") =>
            /\ registry = <<>>
            /\ ~InitializeTest(registry)

\* C20 witness: PluginManager_Close has returned after starting from a
\* registry of built-in, plugin and bridge entries.
C20_Witness ==
    \E t \in Threads : \E i, j, k \in 1..Len(pre[t]) :
        /\ call[t].op = "Close"
        /\ pc[t] = "idle"
        /\ pre[t][i].hDLL = NULL
        /\ pre[t][j].hDLL = hPyPlugin
        /\ pre[t][k].hDLL = CandHandle(1)
        /\ registry = <<>>

\* C21: the registry handle is null before the first bring-up, non-null
\* once a PluginManager_Initialize call has returned TRUE, and null again
\* once PluginManager_Close has returned.
C21_HandleLifetime ==
    /\ nInit = 0 => ~InitializeTest(registry)
    /\ \A t \in Threads :
        /\ (call[t].op = "Initialize" /\ pc[t] = "idle" /\ call[t].ret = TRUE)
                => InitializeTest(registry)
        /\ (call[t].op = "Close" /\ pc[t] = "idle") => ~InitializeTest(registry)

\* C22: the call context handed to a list, read or write capability
\* carries the caller's process reference only when the target entry is
\* built in (null library reference) and a null reference for an entry of a
\* native library, even when the caller named a process; its process id is
\* the process's id when a process was given and (DWORD)-1 otherwise.
C22_ContextOfTarget ==
    \A t \in Threads :
        (call[t].op \in {"List", "Read", "Write"} /\ pc[t] = "idle") =>
            \A k \in 1..Len(events[t]) :
                \A i \in 1..Len(registry) :
                    SameNameIgnoringCase(registry[i].wszModuleName, events[t][k].ctx.wszModule) =>
                        /\ events[t][k].ctx.pProcess =
                              IF registry[i].hDLL = NULL THEN call[t].pProcess ELSE NULL
                        /\ events[t][k].ctx.dwPID =
                              IF call[t].pProcess # NULL THEN ProcessPID(call[t].pProcess)
                              ELSE DWORD_MINUS_1

\* A write with a process reached a native-library entry, whose context has
\* the process id and a null process reference.
C22_Witness_Library ==
    \E t \in Threads :
        /\ call[t].op = "Write" /\ pc[t] = "idle"
        /\ call[t].pProcess # NULL
        /\ Len(events[t]) = 1
        /\ events[t][1].ctx.pProcess = NULL
        /\ events[t][1].ctx.dwPID = ProcessPID(call[t].pProcess)
        /\ \E i \in 1..Len(registry) :
              /\ registry[i].hDLL # NULL
              /\ registry[i].wszModuleName = events[t][1].ctx.wszModule

\* What the dispatcher call c returns, and the capability invocations it
\* makes, when it runs alone on the list reg.
RunAlone(reg, c) ==
    CASE c.op = "List" ->
            PluginManager_List(reg, c.pProcess, c.wszModule, c.wszPath,
                               c.args.pFileList, c.answer)
      [] c.op = "Read" ->
            PluginManager_Read(reg, c.pProcess, c.wszModule, c.wszPath,
                               c.args.pb, c.args.cb, ByteCountBefore, c.args.cbOffset, c.answer)
      [] c.op = "Write" ->
            PluginManager_Write(reg, c.pProcess, c.wszModule, c.wszPath,
                                c.args.pb, c.args.cb, ByteCountBefore, c.args.cbOffset, c.answer)
      [] c.op = "Notify" ->
            PluginManager_Notify(reg, c.args.fEvent, c.args.pvEvent, c.args.cbEvent)
      [] c.op = "ListAll" ->
            [ events |-> PluginManager_ListAll(reg, c.pProcess, c.args.pFileList).events,
              ret    |-> "void" ]

DispatcherOps == {"List", "Read", "Write", "Notify", "ListAll"}

\* C23: a List, Read, Write, Notify or ListAll call never changes the
\* registry: from the moment a thread enters such a call, through every
\* interleaving with the dispatcher calls of the other thread, the registry
\* equals the registry at entry, and when the call returns it has made the
\* invocations and returns the result it makes and returns when run alone.
C23_DispatchLeavesRegistry ==
    \A t \in Threads :
        call[t].op \in DispatcherOps =>
            /\ registry = pre[t]
            /\ pc[t] = "idle" =>
                  LET alone == RunAlone(pre[t], call[t])
                  IN  /\ events[t] = alone.events
                      /\ call[t].ret = alone.ret
                      /\ call[t].op \in {"Read", "Write"} => call[t].pcb = alone.pcb

\* One thread has returned from a write served by the second entry of the
\* list while the other thread is in the middle of a notification round.
C23_Witness_Interleaved ==
    /\ Len(registry) = 3
    /\ call["T1"].op = "Write" /\ pc["T1"] = "idle"
    /\ call["T1"].at = 2 /\ Len(events["T1"]) = 1
    /\ call["T2"].op = "Notify" /\ pc["T2"] = "walk"
    /\ call["T2"].at = 3 /\ Len(events["T2"]) >= 1

\* The successful registrations by built-in initializers in thread t's events.
BuiltinRegistrationsAt(t) ==
    { k \in 1..Len(events[t]) :
        /\ events[t][k].ev = "Register"
        /\ events[t][k].by \in BuiltinCodes
        /\ events[t][k].ret = TRUE }

\* C24: a PluginManager_Initialize call that started on an uninitialized
\* registry returns TRUE whatever the plugin scan and the scripting-bridge
\* phase met, and every built-in module registered in phase 1 is an entry of
\* the registry throughout phases 2 and 3 and at return.
C24_BringUpReturnsTrue ==
    \A t \in Threads :
        (call[t].op = "Initialize" /\ pre[t] = <<>>) =>
            /\ pc[t] = "idle" => call[t].ret = TRUE
            /\ \A k \in BuiltinRegistrationsAt(t) :
                  \E i \in 1..Len(registry) :
                      /\ registry[i].wszModuleName = events[t][k].wszModuleName
                      /\ registry[i].hDLL = NULL

\* A bring-up has returned with built-in modules registered after a plugin
\* file failed to load or was unloaded and the scripting-bridge phase ended
\* without a bridge module.
C24_Witness_FailedPhases ==
    \E t \in Threads :
        /\ call[t].op = "Initialize" /\ pre[t] = <<>> /\ pc[t] = "idle"
        /\ BuiltinRegistrationsAt(t) # {}
        /\ \E k \in 1..Len(events[t]) :
              \/ events[t][k].ev = "LoadLibrary" /\ events[t][k].ret = NULL
              \/ events[t][k].ev = "FreeLibrary"
        /\ OwnRegistrationsAt(t, hPyPlugin) = {}

\* C25: when the scripting-bridge phase has returned after the bridge
\* registered a module of its own, every interpreter-support handle the
\* phase opened that no registry entry references has been released as
\* often as it was opened and is not loaded, and the bridge library is
\* loaded.
C25_SuccessReleasesSupport ==
    \A t \in Threads :
        (PythonPhaseReturned(t) /\ pre[t] = <<>> /\ OwnRegistrationsAt(t, hPyPlugin) # {}) =>
            /\ libs[hPyPlugin] > 0
            /\ \A h \in PythonHandles \ HandlesOf(registry) :
                  /\ Cardinality(OpenedAt(t, h)) = Cardinality(FreesAt(t, h))
                  /\ libs[h] = 0

\* The positions in thread t's events of the attempts to load the runtime
\* of version index v at location loc.
RuntimeLoadsAt(t, loc, v) == LoadsAt(t, PyHandle(loc, v))

VersionIdx == 1..Len(szPYTHON_VERSIONS_SUPPORTED)

\* The version indexes of the runtimes installed at location loc, and the
\* first of them.
InstalledAt(loc) == { v \in VersionIdx : <<loc, v>> \in env.pyFiles }
FirstInstalledAt(loc) == CHOOSE v \in InstalledAt(loc) : \A w \in InstalledAt(loc) : v <= w

\* Thread t's first bring-up is past the scripting-bridge phase.
FirstSearchDone(t) == PythonPhaseReturned(t) /\ nInit = 1 /\ pre[t] = <<>>

\* Thread t's call tried exactly the locations `tried`, in the order user,
\* exe, dflt; at each of them the version file names in the fixed order,
\* each once, up to the first one installed; and the bridge's entry point,
\* when it was called, received the first runtime found.
SearchFollows(t, tried) ==
    LET order == [loc \in Locations |-> CASE loc = "user" -> 1 [] loc = "exe" -> 2 [] loc = "dflt" -> 3]
        upTo(loc) == IF InstalledAt(loc) = {} THEN Len(szPYTHON_VERSIONS_SUPPORTED)
                     ELSE FirstInstalledAt(loc)
        found == { loc \in tried : InstalledAt(loc) # {} }
    IN  /\ \A loc \in Locations, v \in VersionIdx :
              Cardinality(RuntimeLoadsAt(t, loc, v)) =
                  IF loc \in tried /\ v <= upTo(loc) THEN 1 ELSE 0
        /\ \A loc, loc2 \in Locations, v, v2 \in VersionIdx :
              \A k \in RuntimeLoadsAt(t, loc, v), k2 \in RuntimeLoadsAt(t, loc2, v2) :
                  (order[loc] < order[loc2] \/ (loc = loc2 /\ v < v2)) => k < k2
        /\ \A k \in 1..Len(events[t]) :
              (events[t][k].ev = "Initialize" /\ events[t][k].code = hPyPlugin) =>
                  \E loc \in found :
                      /\ \A l2 \in found : order[loc] <= order[l2]
                      /\ events[t][k].ri.hReservedDllPython3X = PyHandle(loc, FirstInstalledAt(loc))
        /\ (found # {} /\ env.bridge.loads /\ env.bridge.export) =>
              \E k \in 1..Len(events[t]) :
                  events[t][k].ev = "Initialize" /\ events[t][k].code = hPyPlugin

\* C26, every location being a fallback of the one before: the configured
\* path is tried first when there is one,
\* then the sub-directory next to the executable, then the search path; a
\* later location is tried exactly when every earlier one yielded no
\* runtime; version names are tried in the fixed order at each location and
\* the first runtime found is handed to the bridge.
C26_LaterWhenEarlierEmpty ==
    \A t \in Threads :
        FirstSearchDone(t) =>
            LET user == IF env.szPythonPath # "" THEN {"user"} ELSE {}
                exe  == IF \A l \in user : InstalledAt(l) = {} THEN {"exe"} ELSE {}
                dflt == IF \A l \in user \cup exe : InstalledAt(l) = {} /\ exe # {}
                        THEN {"dflt"} ELSE {}
            IN  SearchFollows(t, user \cup exe \cup dflt)

\* C26: with a configured path only that location is tried, and when it
\* holds no runtime the phase ends there; without one the sub-directory next
\* to the executable is tried, and the search path exactly when the
\* sub-directory holds no runtime.  At each location tried the version names
\* are tried in the fixed order up to the first one installed, and the first
\* runtime found is the one handed to the bridge.
C26_SearchOrder ==
    \A t \in Threads :
        FirstSearchDone(t) =>
            SearchFollows(t,
                IF env.szPythonPath # "" THEN {"user"}
                ELSE IF InstalledAt("exe") # {} THEN {"exe"}
                ELSE {"exe", "dflt"})

\* A bring-up with a configured path that holds no runtime, and a runtime
\* next to the executable, is past the scripting-bridge phase.
C26_Witness_ConfiguredPathEmpty ==
    \E t \in Threads :
        /\ FirstSearchDone(t)
        /\ env.szPythonPath # ""
        /\ InstalledAt("user") = {}
        /\ InstalledAt("exe") # {}
        /\ RuntimeLoadsAt(t, "user", Len(szPYTHON_VERSIONS_SUPPORTED)) # {}

\* C27: a Register call that returns TRUE puts the new entry, carrying the
\* record's name and library reference, at the head of the registry in front
\* of the entries it held, in their order (so the registry lists the
\* successful registrations latest first); a ListAll call adds the names of
\* exactly the entries whose scope fits its process argument, each once, in
\* the order in which the registry holds them.
C27_PrependAndListAllOrder ==
    \A t \in Threads :
        /\ (call[t].op = "Register" /\ call[t].ret = TRUE) =>
              /\ registry # <<>>
              /\ Tail(registry) = pre[t]
              /\ Head(registry).wszModuleName = call[t].pRegInfo.wszModuleName
              /\ Head(registry).hDLL = call[t].pRegInfo.hDLL
        /\ call[t].op = "ListAll" =>
              LET fits == EligibleFor(registry, call[t].pProcess)
              IN  /\ Len(events[t]) = Cardinality(fits)
                  /\ \A k \in 1..Len(events[t]) :
                        /\ events[t][k].ev = "VMMDLL_VfsList_AddDirectoryEx"
                        /\ \E i \in fits :
                              /\ Cardinality({ j \in fits : j < i }) = k - 1
                              /\ events[t][k].wszName = registry[i].wszModuleName

\* A ListAll call with a process, on a registry built by three successful
\* registrations or more, has added two names or more and skipped an entry.
C27_Witness_ListAllSkips ==
    \E t \in Threads :
        /\ call[t].op = "ListAll"
        /\ call[t].pProcess # NULL
        /\ Len(registry) >= 3
        /\ Len(events[t]) >= 2
        /\ Len(events[t]) < Len(registry)

\* The positions in thread t's events of the invocations of the close
\* capability of entry pm.
ClosesAt(t, pm) ==
    { k \in 1..Len(events[t]) :
        /\ events[t][k].ev = "pfnClose"
        /\ events[t][k].fn = pm.pfnClose
        /\ events[t][k].of = pm.wszModuleName }

\* C28: during PluginManager_Close, when a library is released the close
\* capability of every entry of the registry that referenced that library
\* and has one was invoked before: the entry's own, and that of every other
\* entry sharing the library.
C28_CloseBeforeRelease ==
    \A t \in Threads :
        call[t].op = "Close" =>
            \A k \in 1..Len(events[t]) :
                events[t][k].ev = "FreeLibrary" =>
                    \A i \in 1..Len(pre[t]) :
                        (pre[t][i].hDLL = events[t][k].h /\ pre[t][i].pfnClose # NULL) =>
                            \E m \in ClosesAt(t, pre[t][i]) : m < k

\* A teardown has released a library shared by two entries with close
\* capability, one of them not the last entry of the registry.
C28_Witness_SharedLibrary ==
    \E t \in Threads :
        /\ call[t].op = "Close" /\ pc[t] = "idle"
        /\ \E i, j \in 1..Len(pre[t]) :
              /\ i < j
              /\ pre[t][i].hDLL # NULL
              /\ pre[t][i].hDLL = pre[t][j].hDLL
              /\ pre[t][i].pfnClose # NULL /\ pre[t][j].pfnClose # NULL
              /\ FreesAt(t, pre[t][i].hDLL) # {}

\* The files whose entry point the loader calls: the candidates of the
\* plugins directory and the scripting bridge.
EntryPointLibraries == { CandHandle(i) : i \in 1..(MaxCand + 1) } \cup { hPyPlugin }

\* The entries of reg registered by the code of library h, whatever library
\* reference they carry: their list capability is a function of h.
EntriesRegisteredBy(reg, h) ==
    { i \in 1..Len(reg) : reg[i].pfnList = Fn(h, "list", {"list"}) }

\* C29: at every point of bring-up and teardown, a library whose entry-point
\* call registered an entry that the registry still contains is loaded,
\* whatever origin handle the library put in the record.
C29_NoEntryOfUnloadedLibrary ==
    \A h \in EntryPointLibraries :
        EntriesRegisteredBy(registry, h) # {} => libs[h] > 0

\* C30: PluginManager_Close takes the entries from the head of the registry
\* onward, and when it invokes the close capability of an entry the registry
\* holds exactly the entries that followed it, in their order: the entry
\* itself and those before it are no longer in it.
C30_DetachedBeforeClose ==
    \A t \in Threads :
        call[t].op = "Close" =>
            /\ \E n \in 0..Len(pre[t]) : registry = SubSeq(pre[t], n + 1, Len(pre[t]))
            /\ \A k \in 1..Len(events[t]) :
                  events[t][k].ev = "pfnClose" =>
                      /\ \E i \in 1..Len(pre[t]) :
                            /\ pre[t][i].wszModuleName = events[t][k].of
                            /\ pre[t][i].pfnClose = events[t][k].fn
                            /\ events[t][k].registry = SubSeq(pre[t], i + 1, Len(pre[t]))
                      /\ \A m \in 1..(k - 1) :
                            events[t][m].ev = "pfnClose" =>
                                Len(events[t][m].registry) > Len(events[t][k].registry)

\* A teardown of a registry of three entries or more has invoked the close
\* capability of an entry that was neither the first nor the last.
C30_Witness_MiddleEntry ==
    \E t \in Threads :
        /\ call[t].op = "Close" /\ pc[t] = "idle"
        /\ Len(pre[t]) >= 3
        /\ \E k \in 1..Len(events[t]) :
              /\ events[t][k].ev = "pfnClose"
              /\ Len(events[t][k].registry) \in 1..(Len(pre[t]) - 2)

\* C31: when a Register call has returned, every entry it allocated is
\* linked into the registry or was freed: no block is allocated, unlinked
\* and not freed, whatever the reason of a rejection.
C31_NoOrphanEntry ==
    \A t \in Threads :
        call[t].op = "Register" =>
            /\ leaked = 0
            /\ call[t].ret = FALSE => registry = pre[t]

\* The handles of the files of the plugins directory.
CandHandles == { CandHandle(i) : i \in 1..(MaxCand + 1) }

\* Event e of a bring-up is work of phase 1 (a built-in initializer is
\* called or registers), of phase 2 (a file of the plugins directory is
\* loaded, called, registers or is released) or of phase 3.
PhaseOf(e) ==
    CASE e.ev = "Initialize"  -> IF e.code \in BuiltinCodes THEN 1
                                 ELSE IF e.code \in CandHandles THEN 2 ELSE 3
      [] e.ev = "Register"    -> IF e.by \in BuiltinCodes THEN 1
                                 ELSE IF e.by \in CandHandles THEN 2 ELSE 3
      [] e.ev = "LoadLibrary" -> IF e.file \in CandHandles THEN 2 ELSE 3
      [] e.ev = "FreeLibrary" -> IF e.h \in CandHandles THEN 2 ELSE 3

\* C32: within one bring-up the phases run strictly in order: no work of
\* an earlier phase follows work of a later one; once work of phase 2 or 3
\* is logged (a dynamic library loaded) every built-in initializer has been
\* called, hence has returned; and when the scripting-bridge phase has
\* started every file of the plugins directory has been tried.
C32_PhasesInOrder ==
    \A t \in Threads :
        call[t].op = "Initialize" =>
            /\ \A k \in 1..(Len(events[t]) - 1) :
                  PhaseOf(events[t][k]) <= PhaseOf(events[t][k + 1])
            /\ (events[t] # <<>> /\ PhaseOf(events[t][Len(events[t])]) >= 2) =>
                  \A b \in 1..NumBuiltin :
                      \E m \in 1..Len(events[t]) :
                          /\ events[t][m].ev = "Initialize"
                          /\ events[t][m].code = BuiltinCode(b)
            /\ (\/ pc[t] \in {"init_python", "init_leave"}
                \/ events[t] # <<>> /\ PhaseOf(events[t][Len(events[t])]) = 3) =>
                  \A i \in 1..Len(env.dir) : LoadsAt(t, CandHandle(i)) # {}

\* A bring-up has returned that scanned two files of the plugins directory
\* and loaded the scripting bridge.
C32_Witness_ThreePhases ==
    \E t \in Threads :
        /\ call[t].op = "Initialize" /\ pc[t] = "idle"
        /\ Len(env.dir) = 2
        /\ OpenedAt(t, CandHandle(2)) # {}
        /\ OpenedAt(t, hPyPlugin) # {}

\* C33: the record every built-in initializer and every library entry
\* point receives has magic, version, size, system fields and the gateway
\* callback set, the origin null for a built-in and the handle of the
\* library being called otherwise, and name, scope flags and capabilities
\* cleared: nothing an earlier initializer or library wrote is in it.
C33_FreshTemplate ==
    \A t \in Threads :
        call[t].op = "Initialize" =>
            \A k \in 1..Len(events[t]) :
                events[t][k].ev = "Initialize" =>
                    LET r == events[t][k].ri
                    IN  /\ ~r.null
                        /\ r.magic = VMMDLL_PLUGIN_REGINFO_MAGIC
                        /\ r.wVersion = VMMDLL_PLUGIN_REGINFO_VERSION
                        /\ r.wSize = SIZEOF_REGINFO
                        /\ r.tpMemoryModel = "ctxVmm->tpMemoryModel"
                        /\ r.tpSystem = "ctxVmm->tpSystem"
                        /\ r.pfnPluginManager_Register = "PluginManager_Register"
                        /\ r.hDLL = IF events[t][k].code \in BuiltinCodes THEN NULL
                                    ELSE events[t][k].code
                        /\ r.wszModuleName = <<>>
                        /\ ~r.fRootModule /\ ~r.fProcessModule
                        /\ r.pfnList = NULL /\ r.pfnRead = NULL /\ r.pfnWrite = NULL
                        /\ r.pfnNotify = NULL /\ r.pfnClose = NULL

\* The second file of the plugins directory was loaded and its entry point
\* called right after the first file registered a module, and the
\* scripting bridge was called after it.
C33_Witness_AfterRegistration ==
    \E t \in Threads :
        /\ call[t].op = "Initialize" /\ pc[t] = "idle"
        /\ \E k \in 3..Len(events[t]) :
              /\ events[t][k].ev = "Initialize"
              /\ events[t][k].code = CandHandle(2)
              /\ events[t][k - 1].ev = "LoadLibrary"
              /\ events[t][k - 2].ev = "Register"
              /\ events[t][k - 2].by = CandHandle(1)
              /\ events[t][k - 2].ret = TRUE
        /\ \E k \in 1..Len(events[t]) :
              events[t][k].ev = "Initialize" /\ events[t][k].code = hPyPlugin

\* C34: a List, Read or Write call for which an entry of fitting scope and
\* name has the capability invokes that capability of that entry, once, and
\* nothing else; the module receives the caller's file list, or buffer,
\* length and offset, as given, and the empty path for a null path; the call
\* returns what the module answered, a read or write also leaving in the
\* caller's byte count what the module stored there.
C34_PassThrough ==
    \A t \in Threads :
        (call[t].op \in {"List", "Read", "Write"} /\ pc[t] = "idle") =>
            LET pfn == "pfn" \o call[t].op
                hit == { i \in Addressed(registry, call[t].pProcess, call[t].wszModule) :
                            registry[i][pfn] # NULL }
            IN  hit # {} =>
                    /\ Len(events[t]) = 1
                    /\ events[t][1].ev = pfn
                    /\ \E i \in hit : /\ events[t][1].fn = registry[i][pfn]
                                      /\ events[t][1].ctx.wszModule = registry[i].wszModuleName
                    /\ events[t][1].ctx.wszPath =
                          IF call[t].wszPath = NULLSTR THEN <<>> ELSE call[t].wszPath
                    /\ IF call[t].op = "List"
                       THEN /\ events[t][1].args = [pFileList |-> call[t].pFileList]
                            /\ call[t].ret = events[t][1].returned
                       ELSE /\ events[t][1].args = call[t].args
                            /\ call[t].ret = events[t][1].returned.nt
                            /\ call[t].pcb = events[t][1].returned.cb

\* A read with a null path was served by a module that answered end of
\* file with no byte read.
C34_Witness_NullPathRead ==
    \E t \in Threads :
        /\ call[t].op = "Read" /\ pc[t] = "idle"
        /\ call[t].wszPath = NULLSTR
        /\ Len(events[t]) = 1
        /\ call[t].ret = VMMDLL_STATUS_END_OF_FILE
        /\ call[t].pcb = 0

\* The positions of a bring-up between EnterCriticalSection and
\* LeaveCriticalSection.
InsideLock == {"init_builtin", "init_scan", "init_python", "init_leave"}

\* C35: PluginManager_Initialize leaves the master lock balanced: a thread
\* owns the lock exactly while it is between the acquisition that follows
\* the 'already initialized' test and the release before 'return TRUE'; it
\* does not own it when the call has returned, TRUE or FALSE, whatever the
\* scripting-bridge phase met, and not while it is in teardown.
C35_LockBalanced ==
    \A t \in Threads :
        /\ lock = t <=> pc[t] \in InsideLock
        /\ (call[t].op = "Initialize" /\ pc[t] = "idle") => lock # t

\* A bring-up has returned TRUE, the lock free, after the scripting-bridge
\* phase returned early because the configured path holds no runtime.
C35_Witness_EarlyReturn ==
    \E t \in Threads :
        /\ FirstSearchDone(t) /\ pc[t] = "idle"
        /\ env.szPythonPath # ""
        /\ InstalledAt("user") = {}
        /\ RuntimeLoadsAt(t, "user", 1) # {}
        /\ lock = NULL

\* The built-in modules with an entry in reg.
BuiltinsIn(reg) ==
    { b \in 1..NumBuiltin :
        \E i \in 1..Len(reg) : reg[i].pfnList = Fn(BuiltinCode(b), "list", {"list"}) }

\* The blocks of the heap: free, linked into the registry, or lost.  Their
\* number does not change from one bring-up to the next.
BlocksInAll == heap + Len(registry) + leaked

\* Thread t's call ran every phase: each built-in initializer was called
\* and each file of the plugins directory was tried.
FullBringUp(t) ==
    /\ \A b \in 1..NumBuiltin :
          \E k \in 1..Len(events[t]) :
              events[t][k].ev = "Initialize" /\ events[t][k].code = BuiltinCode(b)
    /\ \A i \in 1..Len(env.dir) : LoadsAt(t, CandHandle(i)) # {}

\* C36: a PluginManager_Initialize call that follows a PluginManager_Close
\* is not rejected as 'already initialized'; every bring-up on an empty
\* registry, the first as well as one after a teardown, runs every phase,
\* returns TRUE and registers the same built-in modules (those the blocks
\* of the heap suffice for, in the order of the initializers).
C36_BringUpAfterTeardown ==
    /\ [][ \A t \in Threads :
              (call[t].op = "Close" /\ pc[t] = "idle" /\ call'[t].op = "Initialize")
                  => pc'[t] = "init_enter" ]_<<pc, nInit>>
    /\ [](\A t \in Threads :
            (call[t].op = "Initialize" /\ pc[t] = "idle" /\ pre[t] = <<>>) =>
                /\ call[t].ret = TRUE
                /\ FullBringUp(t)
                /\ BuiltinsIn(registry) = { b \in 1..NumBuiltin : b <= BlocksInAll })

\* The second bring-up, after a teardown of a registry with every built-in
\* module and a plugin module, has returned with every built-in module.
C36_Witness_SecondBringUp ==
    \E t \in Threads :
        /\ call[t].op = "Initialize" /\ pc[t] = "idle" /\ pre[t] = <<>>
        /\ nInit = 2 /\ nClose >= 1
        /\ BuiltinsIn(registry) = 1..NumBuiltin
        /\ Len(registry) > NumBuiltin

\* C37: a PluginManager_Close call on an empty registry invokes no close
\* capability and releases no library: it logs nothing, and its only step
\* is the return, which leaves registry, heap and libraries as they were.
\* A Close call that directly follows a Close call finds the registry
\* empty, so it is such a call: the two have the effect of the first.
C37_CloseOnEmpty ==
    /\ [](\A t \in Threads :
            (call[t].op = "Close" /\ pre[t] = <<>>) =>
                /\ events[t] = <<>>
                /\ registry = <<>>)
    /\ [][ \A t \in Threads :
              /\ (pc[t] = "closing" /\ pre[t] = <<>>) =>
                    /\ pc'[t] = "idle"
                    /\ registry' = registry /\ heap' = heap /\ libs' = libs
                    /\ leaked' = leaked
              /\ (call[t].op = "Close" /\ pc[t] = "idle" /\ pc'[t] = "closing") =>
                    registry = <<>> ]_<<pc, registry, heap, libs, leaked>>

\* The second of two Close calls in a row, the first of which tore down a
\* registry with every built-in module, has returned.
C37_Witness_CloseTwice ==
    \E t \in Threads :
        /\ call[t].op = "Close" /\ pc[t] = "idle"
        /\ pre[t] = <<>>
        /\ nInit = 1 /\ nClose = 2
        /\ heap >= NumBuiltin

\* C38: VMMPYC_VfsRead answers a request for more than 0x01000000 bytes
\* with an error without calling the read; when the read it called returned
\* a status other than success it answers with an error and no data; it
\* returns data only when the read returned success, and then exactly as
\* many bytes as the read reported.
C38_VfsReadResult ==
    \A t \in Threads :
        call[t].op = "VfsRead" =>
            /\ Len(events[t]) <= 1
            /\ (call[t].parsed /\ call[t].cb > VFSREAD_MAX) =>
                  (events[t] = <<>> /\ call[t].ret.kind = "error")
            /\ (events[t] # <<>> /\ events[t][1].returned.nt # VMMDLL_STATUS_SUCCESS) =>
                  call[t].ret.kind = "error"
            /\ call[t].ret.kind = "bytes" =>
                  /\ events[t] # <<>>
                  /\ events[t][1].returned.nt = VMMDLL_STATUS_SUCCESS
                  /\ call[t].ret.len = events[t][1].returned.cb
                  /\ events[t][1].cb = call[t].cb
            /\ (events[t] # <<>> /\ events[t][1].returned.nt = VMMDLL_STATUS_SUCCESS) =>
                  call[t].ret.kind = "bytes"

\* A call of exactly 0x01000000 bytes was dispatched, the read failed
\* after it had set the byte count, and the call was answered with an error.
C38_Witness_LimitAndFailure ==
    \E t \in Threads :
        /\ call[t].op = "VfsRead"
        /\ call[t].cb = VFSREAD_MAX
        /\ Len(events[t]) = 1
        /\ events[t][1].returned.nt = VMMDLL_STATUS_FILE_INVALID
        /\ events[t][1].returned.cb > 0
        /\ call[t].ret.kind = "error"

====
